---- MODULE Spec2Model ----
(***************************************************************************)
(* Model of the hook library of claude-scaffold: the shared hook utilities *)
(* (hook-utils), the branch-protection guard, the secrets and PII blockers *)
(* and the file-size check.  One invocation of a hook is one behaviour:    *)
(* the process reads its standard input, runs its handler step by step and *)
(* ends with process.exit.  Strings are sequences of one-character         *)
(* strings, so that the regular expressions and string operations of the   *)
(* source are computed character by character.  The module also holds the  *)
(* detectors called repeatedly in one process, the agent-notify hook with  *)
(* its history file, and the autopilot task runner run_tasks.sh with its   *)
(* lockfile, its main loop and its pause file.                             *)
(***************************************************************************)
EXTENDS Integers, Sequences, FiniteSets, TLC

VARIABLES
    hook,          \* which hook script this process runs
    failClosed,    \* the failClosed option the hook passes to readStdin
    stdin,         \* the lines delivered on standard input
    document,      \* the JSON value a "doc" line of stdin encodes
    pc,            \* position of the handler
    event,         \* the value readStdin / JSON.parse returned
    exitCodes,     \* every process.exit(code) performed, in order
    stdout,        \* every write to standard output, in order
    stderr,        \* every message written to standard error, in order
    command,       \* branch-protection: const command
    currentBranch, \* branch-protection: let currentBranch
    pushTarget,    \* branch-protection: const pushTarget
    filePath,      \* blockers: const filePath
    content,       \* blockers: const content
    findings,      \* blockers: const findings
    lastIndex,     \* detectors: pattern.lastIndex of every rule of the table
    calls,         \* detectors: what each call in this process returned
    history,       \* agent-notify: the array in .claude/agent-history.json
    completions,   \* agent-notify: every completion handled so far, in order
    clock,         \* agent-notify: the number of events handled so far
    runner,        \* autopilot: position of each run of run_tasks.sh
    pidFile,       \* autopilot: content of .autopilot-logs/autopilot.pid
    existingPid,   \* autopilot: EXISTING_PID of each run
    trap,          \* autopilot: whether each run has installed trap cleanup
    config,        \* autopilot: MAX_RETRIES, MAX_ITERATIONS, MAX_CHANGED_FILES
    ITERATION,     \* autopilot: ITERATION
    FAILURES,      \* autopilot: FAILURES
    remaining,     \* autopilot: count_remaining, unchecked tasks of TASKS.md
    changed,       \* autopilot: files git diff --name-only lists
    pauseFile,     \* autopilot: whether .autopilot-pause exists
    sessions       \* autopilot: the claude -p sessions started, in order

\* the state of one hook process
hookVars == <<hook, failClosed, stdin, document, pc, event, exitCodes, stdout,
              stderr, command, currentBranch, pushTarget, filePath, content,
              findings>>
\* the state of the rule tables between calls of a detector
detectorVars == <<lastIndex, calls>>
\* the state agent-notify keeps between its processes
notifyVars == <<history, completions, clock>>
\* the state of the autopilot runs and of the project they work on
runnerVars == <<runner, pidFile, existingPid, trap, config, ITERATION,
                FAILURES, remaining, changed, pauseFile, sessions>>
\* what a hook process never touches
beyondHook == <<detectorVars, notifyVars, runnerVars>>

vars == <<hookVars, detectorVars, notifyVars, runnerVars>>

-----------------------------------------------------------------------------
(* Characters and JavaScript string primitives                             *)

UpperChars == <<"A","B","C","D","E","F","G","H","I","J","K","L","M",
                "N","O","P","Q","R","S","T","U","V","W","X","Y","Z">>
LowerChars == <<"a","b","c","d","e","f","g","h","i","j","k","l","m",
                "n","o","p","q","r","s","t","u","v","w","x","y","z">>
UpperSet == {UpperChars[i] : i \in DOMAIN UpperChars}
LowerSet == {LowerChars[i] : i \in DOMAIN LowerChars}
Digits == {"0","1","2","3","4","5","6","7","8","9"}

\* String.prototype.toLowerCase on one character
Lower(c) ==
    IF c \in UpperSet
    THEN LowerChars[CHOOSE i \in DOMAIN UpperChars : UpperChars[i] = c]
    ELSE c

ToLowerCase(s) == [i \in DOMAIN s |-> Lower(s[i])]

\* the regular-expression classes \s and \w
IsSpace(c) == c \in {" ", "\t", "\n"}
IsWord(c) == c \in UpperSet \cup LowerSet \cup Digits \cup {"_"}

From(s, i) == SubSeq(s, i, Len(s))

MinOf(S) == CHOOSE x \in S : \A y \in S : x <= y
MaxOf(S) == CHOOSE x \in S : \A y \in S : y <= x

\* the least member of S, or `none` when S is empty
MinOr(S, none) == IF S = {} THEN none ELSE MinOf(S)

\* Array.prototype.includes
Includes(arr, x) == \E i \in DOMAIN arr : arr[i] = x

\* literal `lit` at index i of s, case-sensitive
LitAt(s, i, lit) ==
    /\ i >= 1
    /\ i + Len(lit) - 1 <= Len(s)
    /\ \A k \in DOMAIN lit : s[i + k - 1] = lit[k]

StartsWith(s, lit) == LitAt(s, 1, lit)

\* String.prototype.includes
Contains(s, lit) == \E i \in 1..Len(s) : LitAt(s, i, lit)

\* length of the run of \s characters of s starting at index i
RECURSIVE SpaceRun(_, _)
SpaceRun(s, i) ==
    IF i > Len(s) \/ ~IsSpace(s[i]) THEN 0 ELSE 1 + SpaceRun(s, i + 1)

\* length of the run of \s characters of s ending at index i
RECURSIVE SpaceRunBack(_, _)
SpaceRunBack(s, i) ==
    IF i < 1 \/ ~IsSpace(s[i]) THEN 0 ELSE 1 + SpaceRunBack(s, i - 1)

\* String.prototype.trim
Trim(s) ==
    LET a == SpaceRun(s, 1) + 1
    IN  IF a > Len(s) THEN <<>>
        ELSE SubSeq(s, a, Len(s) - SpaceRunBack(s, Len(s)))

\* s.split(/\s+/)
RECURSIVE SplitWs(_)
SplitWs(s) ==
    LET ws == {i \in 1..Len(s) : IsSpace(s[i])}
    IN  IF ws = {} THEN <<s>>
        ELSE LET i == MinOf(ws)
             IN  <<SubSeq(s, 1, i - 1)>> \o SplitWs(From(s, i + SpaceRun(s, i)))

\* s.split(':').pop()
AfterLastColon(s) ==
    LET cs == {i \in 1..Len(s) : s[i] = ":"}
    IN  IF cs = {} THEN s
        ELSE From(s, (CHOOSE i \in cs : \A j \in cs : j <= i) + 1)

\* \b at the gap before index i of s
WordBoundary(s, i) ==
    LET before == i - 1 >= 1 /\ i - 1 <= Len(s) /\ IsWord(s[i - 1])
        after  == i >= 1 /\ i <= Len(s) /\ IsWord(s[i])
    IN  before # after

\* index of the first line terminator of s at or after i, or Len(s)+1
LineEnd(s, i) ==
    LET nl == {j \in i..Len(s) : s[j] = "\n"}
    IN  IF nl = {} THEN Len(s) + 1 ELSE MinOf(nl)

\* words joined by single blanks
RECURSIVE Join(_)
Join(words) ==
    IF words = <<>> THEN <<>>
    ELSE IF Len(words) = 1 THEN words[1]
    ELSE words[1] \o <<" ">> \o Join(Tail(words))

-----------------------------------------------------------------------------
(* Regular expressions.  A pattern is a sequence of nodes; Match computes  *)
(* what the backtracking matcher of JavaScript computes: alternatives are  *)
(* tried in order, quantifiers are greedy, and the first way to match the  *)
(* whole pattern wins.                                                     *)

Node(op, lit, set, neg, lo, hi, alts) ==
    [op |-> op, lit |-> lit, set |-> set, neg |-> neg, lo |-> lo, hi |-> hi,
     alts |-> alts]

Lit(text)           == Node("lit", text, {}, FALSE, 0, 0, <<>>)
\* [set]{lo,hi}, [set]{lo,} and their negations [^set]
Rep(set, lo, hi)    == Node("class", <<>>, set, FALSE, lo, hi, <<>>)
Many(set, lo)       == Node("class", <<>>, set, FALSE, lo, -1, <<>>)
RepNot(set, lo, hi) == Node("class", <<>>, set, TRUE, lo, hi, <<>>)
ManyNot(set, lo)    == Node("class", <<>>, set, TRUE, lo, -1, <<>>)
One(set)            == Rep(set, 1, 1)
\* (?:a|b|...), each alternative a sequence of nodes
Alt(alts)           == Node("alt", <<>>, {}, FALSE, 0, 0, alts)
\* (?:...)?
Opt(nodes)          == Alt(<<nodes, <<>>>>)
\* \b, ^ and $ (no m flag)
WordB               == Node("wordb", <<>>, {}, FALSE, 0, 0, <<>>)
Bos                 == Node("bos", <<>>, {}, FALSE, 0, 0, <<>>)
Eos                 == Node("eos", <<>>, {}, FALSE, 0, 0, <<>>)
\* (?!a|b|...) and (?<![set])
NotAhead(alts)      == Node("notahead", <<>>, {}, FALSE, 0, 0, alts)
NotBehind(set)      == Node("notbehind", <<>>, set, FALSE, 0, 0, <<>>)

\* the classes \s, \d, \w and . (any character but a line terminator)
Space    == {" ", "\t", "\n"}
Alnum    == UpperSet \cup LowerSet \cup Digits
WordSet  == Alnum \cup {"_"}
Newline  == {"\n"}
AnyMany  == ManyNot(Newline, 0)

Upper(c) ==
    IF c \in LowerSet
    THEN UpperChars[CHOOSE i \in DOMAIN LowerChars : LowerChars[i] = c]
    ELSE c

\* c matches [set] / [^set], ignoring case under the i flag
InClass(c, set, neg, ci) ==
    LET in == c \in set \/ (ci /\ (Lower(c) \in set \/ Upper(c) \in set))
    IN  IF neg THEN ~in ELSE in

\* the literal at index i of s, ignoring case under the i flag
LitMatch(s, i, lit, ci) ==
    /\ i + Len(lit) - 1 <= Len(s)
    /\ \A k \in DOMAIN lit :
          IF ci THEN Lower(s[i + k - 1]) = Lower(lit[k])
          ELSE s[i + k - 1] = lit[k]

\* how many characters of the class follow index i, at most max (max < 0:
\* no limit)
ClassRun(s, i, set, neg, ci, max) ==
    LET Run(limit) ==
            MinOr({j \in 0..(limit - 1) : ~InClass(s[i + j], set, neg, ci)}, limit)
        Limit(left) == IF max < 0 \/ left < max THEN left ELSE max
    IN  Run(Limit(IF i > Len(s) THEN 0 ELSE Len(s) - i + 1))

\* Match(nodes, k, s, i, ci): nodes[k..] matched at index i of s; the index
\* after the match, or 0 when there is none
RECURSIVE Match(_, _, _, _, _)
RECURSIVE TryRun(_, _, _, _, _, _)
RECURSIVE TryAlts(_, _, _, _, _, _)
Match(nodes, k, s, i, ci) ==
    IF k > Len(nodes) THEN i
    ELSE LET n == nodes[k]
         IN  CASE n.op = "lit" ->
                    IF LitMatch(s, i, n.lit, ci)
                    THEN Match(nodes, k + 1, s, i + Len(n.lit), ci)
                    ELSE 0
               [] n.op = "class" ->
                    TryRun(nodes, k, s, i, ci,
                           ClassRun(s, i, n.set, n.neg, ci, n.hi))
               [] n.op = "alt" -> TryAlts(nodes, k, s, i, ci, 1)
               [] n.op = "wordb" ->
                    IF WordBoundary(s, i) THEN Match(nodes, k + 1, s, i, ci)
                    ELSE 0
               [] n.op = "bos" ->
                    IF i = 1 THEN Match(nodes, k + 1, s, i, ci) ELSE 0
               [] n.op = "eos" ->
                    IF i = Len(s) + 1 THEN Match(nodes, k + 1, s, i, ci)
                    ELSE 0
               [] n.op = "notahead" ->
                    IF \A a \in DOMAIN n.alts : Match(n.alts[a], 1, s, i, ci) = 0
                    THEN Match(nodes, k + 1, s, i, ci)
                    ELSE 0
               [] n.op = "notbehind" ->
                    IF i > 1 /\ InClass(s[i - 1], n.set, FALSE, ci) THEN 0
                    ELSE Match(nodes, k + 1, s, i, ci)

\* a greedy quantifier gives characters back one at a time: the longest run
\* after which the rest matches
TryRun(nodes, k, s, i, ci, count) ==
    LET Longest(fits) ==
            IF fits = {} THEN 0
            ELSE Match(nodes, k + 1, s, i + MaxOf(fits), ci)
    IN  Longest({c \in nodes[k].lo..count :
                    Match(nodes, k + 1, s, i + c, ci) # 0})

\* the alternatives of a group, in order, each followed by the rest
TryAlts(nodes, k, s, i, ci, a) ==
    IF a > Len(nodes[k].alts) THEN 0
    ELSE LET OrNext(r) == IF r # 0 THEN r ELSE TryAlts(nodes, k, s, i, ci, a + 1)
         IN  OrNext(Match(nodes[k].alts[a] \o SubSeq(nodes, k + 1, Len(nodes)),
                          1, s, i, ci))

\* a pattern with its i flag
Regex(nodes, ci) == [nodes |-> nodes, ci |-> ci]

\* index after the match of re at index i of s, or 0
MatchEnd(re, s, i) == Match(re.nodes, 1, s, i, re.ci)

\* index of the leftmost match of re in s at or after `from`, or 0
Search(re, s, from) ==
    MinOr({i \in from..(Len(s) + 1) : MatchEnd(re, s, i) # 0}, 0)

\* RegExp.prototype.test (no g flag)
Test(re, s) == Search(re, s, 1) # 0

\* s.matchAll(re) / s.match(re) with the g flag: the successive matches,
\* each with its 0-based index and its text (no pattern here matches "")
RECURSIVE MatchAll(_, _, _)
MatchAll(re, s, from) ==
    LET Found(i, e) ==
            <<[index |-> i - 1, text |-> SubSeq(s, i, e - 1)]>>
                \o MatchAll(re, s, IF e > i THEN e ELSE i + 1)
        Start(i) == IF i = 0 THEN <<>> ELSE Found(i, MatchEnd(re, s, i))
    IN  Start(Search(re, s, from))

-----------------------------------------------------------------------------
(* JavaScript values carried by the hook event                            *)

Undef     == [t |-> "undefined", v |-> <<>>, bytes |-> 0]
JNull     == [t |-> "null", v |-> <<>>, bytes |-> 0]
\* a string (of ASCII characters: one byte each)
Str(s)    == [t |-> "string", v |-> s, bytes |-> Len(s)]
\* a string of n bytes too long to spell out: v is how it starts
Filler(n) == [t |-> "string", v |-> <<"x">>, bytes |-> n]
Num(s)    == [t |-> "number", v |-> s, bytes |-> 0]   \* v: the number's decimal text
\* a tool_input object; absent properties are Undef
ToolInput(fp, ct, ns, cmd) ==
    [t |-> "object", file_path |-> fp, content |-> ct, new_string |-> ns,
     command |-> cmd]
NoToolInput == [t |-> "undefined"]
\* the event object
Event(ti) == [t |-> "object", tool_input |-> ti]
NullEvent == [t |-> "null", tool_input |-> NoToolInput]
NoEvent   == [t |-> "none", tool_input |-> NoToolInput]

\* JavaScript truthiness of a value of the event
Truthy(x) ==
    CASE x.t = "string" -> x.v # <<>>
      [] x.t = "number" -> x.v # <<"0">>
      [] OTHER -> FALSE

\* a || b
OrElse(a, b) == IF Truthy(a) THEN a ELSE b

\* event.tool_input?.<prop>: Undef when tool_input is absent
Prop(ev, name) ==
    IF ev.tool_input.t # "object" THEN Undef
    ELSE CASE name = "file_path"  -> ev.tool_input.file_path
           [] name = "content"    -> ev.tool_input.content
           [] name = "new_string" -> ev.tool_input.new_string
           [] name = "command"    -> ev.tool_input.command

\* an optional string: None is null, Some(s) the string s
None    == <<>>
Some(s) == <<s>>

-----------------------------------------------------------------------------
(* Messages: a message is a sequence of parts; a part is template text,   *)
(* an interpolated value of the request, or the text of a caught exception *)

Tmpl(text)         == [kind |-> "template", text |-> text, chars |-> <<>>]
Value(name, chars) == [kind |-> "value", text |-> name, chars |-> chars]
ErrText            == [kind |-> "exception", text |-> "err.message", chars |-> <<>>]

\* the outcome of a call that may end the process:
\*   out, err: what it writes; exit: <<>> or <<code>>
Outcome(out, err, exit) == [out |-> out, err |-> err, exit |-> exit]
Continue == Outcome(<<>>, <<>>, <<>>)

\* hook-utils allowAndExit
allowAndExit == Outcome(<<"{}">>, <<>>, <<0>>)

\* hook-utils blockAndExit
blockAndExit(message) == Outcome(<<>>, <<message>>, <<2>>)

\* process.exit stops the process: nothing runs after it
Apply(o, next) ==
    /\ stdout' = stdout \o o.out
    /\ stderr' = stderr \o o.err
    /\ exitCodes' = exitCodes \o o.exit
    /\ pc' = IF o.exit # <<>> THEN "exited" ELSE next

-----------------------------------------------------------------------------
(* hook-utils: readStdin                                                   *)

\* A line of standard input is one of: "" (an empty line), "ws" (blanks only),
\* "junk" (text that is no JSON) and "doc" (a complete JSON document, the
\* value `document`).  readline drops the line terminators and readStdin
\* concatenates the lines.
LineKinds == {"", "ws", "junk", "doc"}

\* !input || input.trim() === ''
InputBlank(lines) == \A i \in DOMAIN lines : lines[i] \in {"", "ws"}

\* JSON.parse(input) returns (surrounding white space is allowed) iff the
\* input is exactly one document
JsonParses(lines) ==
    SelectSeq(lines, LAMBDA l : l \notin {"", "ws"}) = <<"doc">>

\* readStdin without its failClosed branches: every failure allows
readStdinFailOpen(lines, doc, fc) ==
    IF InputBlank(lines) \/ ~JsonParses(lines)
    THEN [returned |-> FALSE, value |-> NoEvent, o |-> Outcome(<<"{}">>, <<>>, <<0>>)]
    ELSE [returned |-> TRUE, value |-> doc, o |-> Continue]

\* readStdin({ failClosed }): either returns the parsed event or ends the
\* process
readStdin(lines, doc, fc) ==
    IF InputBlank(lines) THEN
        [returned |-> FALSE, value |-> NoEvent,
         o |-> IF fc
               THEN Outcome(<<>>, <<<<Tmpl("Hook error: empty stdin input")>>>>, <<2>>)
               ELSE Outcome(<<"{}">>, <<>>, <<0>>)]
    ELSE IF JsonParses(lines) THEN
        [returned |-> TRUE, value |-> doc, o |-> Continue]
    ELSE
        [returned |-> FALSE, value |-> NoEvent,
         o |-> IF fc
               THEN Outcome(<<>>,
                            <<<<Tmpl("Hook error: invalid JSON input - "), ErrText>>>>,
                            <<2>>)
               ELSE Outcome(<<"{}">>, <<>>, <<0>>)]

\* hook-utils parseHookEvent(event): { filePath, content }
parseHookEvent(ev) ==
    [filePath |-> OrElse(Prop(ev, "file_path"), Str(<<>>)),
     content  |-> OrElse(Prop(ev, "content"),
                         OrElse(Prop(ev, "new_string"), Str(<<>>)))]

\* File extensions to skip (binary, media, etc.)
SKIP_EXTENSIONS == <<
    <<".","p","n","g">>, <<".","j","p","g">>, <<".","j","p","e","g">>, <<".","g","i","f">>, <<".","i","c","o">>, <<".","s","v","g">>, <<".","w","e","b","p">>,
    <<".","m","p","3">>, <<".","m","p","4">>, <<".","w","a","v">>, <<".","a","v","i">>, <<".","m","o","v">>,
    <<".","p","d","f">>, <<".","z","i","p">>, <<".","t","a","r">>, <<".","g","z">>,
    <<".","w","o","f","f">>, <<".","w","o","f","f","2">>, <<".","t","t","f">>, <<".","e","o","t">>,
    <<".","l","o","c","k">>, <<".","s","u","m">> >>

\* Base path patterns to skip
SKIP_PATTERNS_BASE == <<
    Regex(<<Lit(<<"n","o","d","e","_","m","o","d","u","l","e","s","/">>)>>, TRUE),
    Regex(<<Lit(<<"v","e","n","d","o","r","/">>)>>, TRUE),
    Regex(<<Lit(<<".","g","i","t","/">>)>>, TRUE),
    Regex(<<Lit(<<"p","a","c","k","a","g","e","-","l","o","c","k",".","j","s","o","n">>), Eos>>, TRUE),
    Regex(<<Lit(<<"c","o","m","p","o","s","e","r",".","l","o","c","k">>), Eos>>, TRUE),
    Regex(<<Lit(<<"y","a","r","n",".","l","o","c","k">>), Eos>>, TRUE),
    Regex(<<Lit(<<".","m","i","n",".">>), Alt(<<<<Lit(<<"j","s">>)>>, <<Lit(<<"c","s","s">>)>>>>), Eos>>, TRUE) >>

\* String.prototype.lastIndexOf(c), 0-based; -1 when c does not occur
LastIndexOf(s, c) ==
    LET at == {i \in 1..Len(s) : s[i] = c}
    IN  IF at = {} THEN -1 ELSE (CHOOSE i \in at : \A j \in at : j <= i) - 1

\* String.prototype.substring(start): a negative start counts as 0
Substring(s, start) == From(s, (IF start < 0 THEN 0 ELSE start) + 1)

\* hook-utils shouldSkipFile(filePath, extraPatterns)
\* shouldSkipFile without `if (!filePath) return true`
shouldSkipFileNoPathScanned(path, extraPatterns) ==
    LET ext == ToLowerCase(Substring(path, LastIndexOf(path, ".")))
        AnyOf(allPatterns) ==
            \E k \in DOMAIN allPatterns : Test(allPatterns[k], path)
    IN  \/ Includes(SKIP_EXTENSIONS, ext)
        \/ AnyOf(SKIP_PATTERNS_BASE \o extraPatterns)

shouldSkipFile(path, extraPatterns) ==
    IF path = <<>> THEN TRUE
    ELSE LET ext == ToLowerCase(Substring(path, LastIndexOf(path, ".")))
             AnyOf(allPatterns) ==
                 \E k \in DOMAIN allPatterns : Test(allPatterns[k], path)
         IN  \/ Includes(SKIP_EXTENSIONS, ext)
             \/ AnyOf(SKIP_PATTERNS_BASE \o extraPatterns)

\* s.split(sep) for a one-character separator
RECURSIVE SplitOn(_, _)
SplitOn(s, sep) ==
    LET at == {i \in 1..Len(s) : s[i] = sep}
    IN  IF at = {} THEN <<s>>
        ELSE <<SubSeq(s, 1, MinOf(at) - 1)>> \o SplitOn(From(s, MinOf(at) + 1), sep)

\* arr.join(sep)
RECURSIVE JoinWith(_, _)
JoinWith(arr, sep) ==
    IF arr = <<>> THEN <<>>
    ELSE IF Len(arr) = 1 THEN arr[1]
    ELSE arr[1] \o sep \o JoinWith(Tail(arr), sep)

\* hasNearbyContext's loop with `charCount >= matchIndex`
RECURSIVE MatchLineAtOrPast(_, _, _, _)
MatchLineAtOrPast(lines, i, charCount, matchIndex) ==
    IF i > Len(lines) THEN 0
    ELSE IF charCount + Len(lines[i]) + 1 >= matchIndex THEN i - 1
    ELSE MatchLineAtOrPast(lines, i + 1, charCount + Len(lines[i]) + 1, matchIndex)

\* the loop of hasNearbyContext: the 0-based index of the first line at
\* which the running character count exceeds matchIndex
RECURSIVE MatchLine(_, _, _, _)
MatchLine(lines, i, charCount, matchIndex) ==
    IF i > Len(lines) THEN 0
    ELSE IF charCount + Len(lines[i]) + 1 > matchIndex THEN i - 1
    ELSE MatchLine(lines, i + 1, charCount + Len(lines[i]) + 1, matchIndex)

\* default of the lineRadius parameter
DefaultLineRadius == 3

\* hook-utils hasNearbyContext(content, matchIndex, contextPattern, lineRadius)
hasNearbyContext(text, matchIndex, contextPattern, lineRadius) ==
    LET Near(lines, matchLine) ==
            LET startLine == IF matchLine - lineRadius < 0 THEN 0
                             ELSE matchLine - lineRadius
                endLine   == IF matchLine + lineRadius > Len(lines) - 1
                             THEN Len(lines) - 1 ELSE matchLine + lineRadius
                nearbyText == JoinWith(SubSeq(lines, startLine + 1, endLine + 1),
                                       <<"\n">>)
            IN  Test(contextPattern, nearbyText)
        In(lines) == Near(lines, MatchLine(lines, 1, 0, matchIndex))
    IN  In(SplitOn(text, "\n"))

\* hook-utils isAllowlisted(value, patterns)
isAllowlisted(value, patterns) ==
    \E k \in DOMAIN patterns : Test(patterns[k], value)

\* the key of deduplicateFindings: `${finding.type}:${finding.masked}`
FindingKey(f) == f.type \o <<":">> \o f.masked

\* the loop of deduplicateFindings with the type alone as the key
RECURSIVE DedupByType(_, _, _)
DedupByType(fs, i, seen) ==
    IF i > Len(fs) THEN <<>>
    ELSE IF fs[i].type \in seen THEN DedupByType(fs, i + 1, seen)
    ELSE <<fs[i]>> \o DedupByType(fs, i + 1, seen \cup {fs[i].type})

\* hook-utils deduplicateFindings(findings): the loop over findings[i..]
\* with the keys seen so far
RECURSIVE Dedup(_, _, _)
Dedup(fs, i, seen) ==
    IF i > Len(fs) THEN <<>>
    ELSE IF FindingKey(fs[i]) \in seen THEN Dedup(fs, i + 1, seen)
    ELSE <<fs[i]>> \o Dedup(fs, i + 1, seen \cup {FindingKey(fs[i])})

deduplicateFindings(fs) == Dedup(fs, 1, {})

\* String(n) for n >= 0
DigitChars == <<"0","1","2","3","4","5","6","7","8","9">>
RECURSIVE NumberText(_)
NumberText(n) ==
    IF n < 10 THEN <<DigitChars[n + 1]>>
    ELSE NumberText(n \div 10) \o <<DigitChars[(n % 10) + 1]>>

\* default of the limit parameter
DefaultLimit == 5

\* formatFindings with `findings.length >= limit`
formatFindingsAtLimit(fs, limit) ==
    LET shown == SubSeq(fs, 1, IF Len(fs) < limit THEN Len(fs) ELSE limit)
        lines == [i \in DOMAIN shown |->
                     <<" "," ","-"," ">> \o shown[i].type \o <<":"," ">> \o shown[i].masked]
    IN  [list |-> JoinWith(lines, <<"\n">>),
         more |-> IF Len(fs) >= limit
                  THEN <<"\n"," "," ",".",".",".","a","n","d"," ">> \o NumberText(Len(fs) - limit) \o <<" ","m","o","r","e">>
                  ELSE <<>>]

\* hook-utils formatFindings(findings, limit): { list, more }
formatFindings(fs, limit) ==
    LET shown == SubSeq(fs, 1, IF Len(fs) < limit THEN Len(fs) ELSE limit)
        lines == [i \in DOMAIN shown |->
                     <<" "," ","-"," ">> \o shown[i].type \o <<":"," ">> \o shown[i].masked]
    IN  [list |-> JoinWith(lines, <<"\n">>),
         more |-> IF Len(fs) > limit
                  THEN <<"\n"," "," ",".",".",".","a","n","d"," ">> \o NumberText(Len(fs) - limit) \o <<" ","m","o","r","e">>
                  ELSE <<>>]

-----------------------------------------------------------------------------
(* branch-protection.js                                                    *)

PROTECTED_BRANCHES == <<<<"m","a","i","n">>, <<"m","a","s","t","e","r">>, <<"p","r","o","d","u","c","t","i","o","n">>>>

\* Destructive git patterns blocked on protected branches
DANGEROUS_PATTERNS == <<
    \* /git\s+push\s+.*--force(?!-with-lease)/i
    Regex(<<Lit(<<"g","i","t">>), Many(Space, 1), Lit(<<"p","u","s","h">>), Many(Space, 1), AnyMany,
            Lit(<<"-","-","f","o","r","c","e">>), NotAhead(<<<<Lit(<<"-","w","i","t","h","-","l","e","a","s","e">>)>>>>)>>, TRUE),
    \* /git\s+push\s+-f\b/i
    Regex(<<Lit(<<"g","i","t">>), Many(Space, 1), Lit(<<"p","u","s","h">>), Many(Space, 1),
            Lit(<<"-","f">>), WordB>>, TRUE),
    \* /git\s+reset\s+--hard/i
    Regex(<<Lit(<<"g","i","t">>), Many(Space, 1), Lit(<<"r","e","s","e","t">>), Many(Space, 1),
            Lit(<<"-","-","h","a","r","d">>)>>, TRUE),
    \* /git\s+checkout\s+--?\s*\./i
    Regex(<<Lit(<<"g","i","t">>), Many(Space, 1), Lit(<<"c","h","e","c","k","o","u","t">>), Many(Space, 1),
            Lit(<<"-">>), Rep({"-"}, 0, 1), Many(Space, 0), Lit(<<".">>)>>, TRUE),
    \* /git\s+clean\s+-f/i
    Regex(<<Lit(<<"g","i","t">>), Many(Space, 1), Lit(<<"c","l","e","a","n">>), Many(Space, 1),
            Lit(<<"-","f">>)>>, TRUE),
    \* /git\s+restore\s+\./i
    Regex(<<Lit(<<"g","i","t">>), Many(Space, 1), Lit(<<"r","e","s","t","o","r","e">>), Many(Space, 1),
            Lit(<<".">>)>>, TRUE),
    \* /git\s+branch\s+-D\b/i
    Regex(<<Lit(<<"g","i","t">>), Many(Space, 1), Lit(<<"b","r","a","n","c","h">>), Many(Space, 1),
            Lit(<<"-","D">>), WordB>>, TRUE) >>

\* for (const pattern of DANGEROUS_PATTERNS) if (pattern.test(command))
IsDangerous(s) ==
    \E k \in DOMAIN DANGEROUS_PATTERNS : Test(DANGEROUS_PATTERNS[k], s)

\* flags of git push that take a value
ValueFlags == {<<"-","-","r","e","p","o">>, <<"-","-","p","u","s","h","-","o","p","t","i","o","n">>, <<"-","-","r","e","c","e","i","v","e","-","p","a","c","k">>, <<"-","o">>}

\* the loop of extractPushTarget without the `i++` for flags with a value
RECURSIVE PositionalArgsKeepValues(_, _)
PositionalArgsKeepValues(args, i) ==
    IF i > Len(args) THEN <<>>
    ELSE IF StartsWith(args[i], <<"-">>)
         THEN PositionalArgsKeepValues(args, i + 1)
         ELSE <<args[i]>> \o PositionalArgsKeepValues(args, i + 1)

\* the loop of extractPushTarget with --delete taken for a flag with a value
RECURSIVE PositionalArgsDeleteValue(_, _)
PositionalArgsDeleteValue(args, i) ==
    IF i > Len(args) THEN <<>>
    ELSE IF StartsWith(args[i], <<"-">>)
         THEN IF args[i] \in ValueFlags \cup {<<"-","-","d","e","l","e","t","e">>}
              THEN PositionalArgsDeleteValue(args, i + 2)
              ELSE PositionalArgsDeleteValue(args, i + 1)
         ELSE <<args[i]>> \o PositionalArgsDeleteValue(args, i + 1)

\* the loop of extractPushTarget over args[i..]: the positional arguments
RECURSIVE PositionalArgs(_, _)
PositionalArgs(args, i) ==
    IF i > Len(args) THEN <<>>
    ELSE IF StartsWith(args[i], <<"-">>)
         THEN IF args[i] \in ValueFlags
              THEN PositionalArgs(args, i + 2)
              ELSE PositionalArgs(args, i + 1)
         ELSE <<args[i]>> \o PositionalArgs(args, i + 1)

\* the refspec normalisation without the refs/heads/ step
RefspecTargetKeepsNamespace(refspec) ==
    LET t1 == IF Contains(refspec, <<":">>) THEN AfterLastColon(refspec) ELSE refspec
    IN  IF StartsWith(t1, <<"+">>) THEN Tail(t1) ELSE t1

\* the refspec normalisation of extractPushTarget
RefspecTarget(refspec) ==
    LET t1 == IF Contains(refspec, <<":">>) THEN AfterLastColon(refspec) ELSE refspec
        t2 == IF StartsWith(t1, <<"+","r","e","f","s","/","h","e","a","d","s","/">>) THEN From(t1, 13)
              ELSE IF StartsWith(t1, <<"r","e","f","s","/","h","e","a","d","s","/">>) THEN From(t1, 12)
              ELSE t1
    IN  IF StartsWith(t2, <<"+">>) THEN Tail(t2) ELSE t2

\* /git\s+push\b/i, the part of the pattern before its group
PushKeyword ==
    Regex(<<Lit(<<"g","i","t">>), Many(Space, 1), Lit(<<"p","u","s","h">>), WordB>>, TRUE)

\* command.match(/git\s+push\b(.*)/i): the captured group of the leftmost
\* match, or None (null)
PushMatch(cmd) ==
    LET Group(e) == Some(SubSeq(cmd, e, LineEnd(cmd, e) - 1))
        Start(i) == IF i = 0 THEN None ELSE Group(MatchEnd(PushKeyword, cmd, i))
    IN  Start(Search(PushKeyword, cmd, 1))

\* the positional arguments extractPushTarget finds in the text after
\* `git push`
PushPositionals(group) ==
    PositionalArgs(SelectSeq(SplitWs(Trim(group)), LAMBDA a : Len(a) > 0), 1)

\* extractPushTarget without its final protected-branch test
extractPushTargetAnyBranch(cmd) ==
    LET Target(positionalArgs) ==
            IF Len(positionalArgs) < 2 THEN None
            ELSE Some(RefspecTarget(positionalArgs[2]))
        Of(pushMatch) ==
            IF pushMatch = None THEN None
            ELSE Target(PushPositionals(pushMatch[1]))
    IN  Of(PushMatch(cmd))

\* extractPushTarget(command): Some(branch) or None (null)
extractPushTarget(cmd) ==
    LET Protected(targetBranch) ==
            IF Includes(PROTECTED_BRANCHES, targetBranch)
            THEN Some(targetBranch)
            ELSE None
        Target(positionalArgs) ==
            IF Len(positionalArgs) < 2 THEN None
            ELSE Protected(RefspecTarget(positionalArgs[2]))
        Of(pushMatch) ==
            IF pushMatch = None THEN None
            ELSE Target(PushPositionals(pushMatch[1]))
    IN  Of(PushMatch(cmd))

\* /git\s+push\s+.*--delete/i
DeletePattern ==
    Regex(<<Lit(<<"g","i","t">>), Many(Space, 1), Lit(<<"p","u","s","h">>), Many(Space, 1), AnyMany,
            Lit(<<"-","-","d","e","l","e","t","e">>)>>, TRUE)

\* main, lines 144-156: the protected branch a `--delete` names, or None
ProtectedDeletion(cmd) ==
    IF ~Test(DeletePattern, cmd) THEN None
    ELSE LET After(args, deleteIdx) ==
                 IF deleteIdx = 0 THEN None
                 ELSE IF deleteIdx + 1 > Len(args) THEN None
                 ELSE IF Includes(PROTECTED_BRANCHES, args[deleteIdx + 1])
                      THEN Some(args[deleteIdx + 1])
                      ELSE None
             In(args) ==
                 After(args, MinOr({i \in DOMAIN args : args[i] = <<"-","-","d","e","l","e","t","e">>}, 0))
         IN  In(SplitWs(cmd))

\* the block messages of main
DangerousMessage(branch) ==
    <<Tmpl("Blocked: Dangerous operation on protected branch '"),
      Value("currentBranch", branch),
      Tmpl("'.\nCreate a feature branch instead: git checkout -b feature/your-feature")>>
PushMessage(target) ==
    <<Tmpl("Blocked: Direct push to '"), Value("pushTarget", target),
      Tmpl("' not allowed.\nCreate a PR instead: gh pr create")>>
DeleteMessage(branch) ==
    <<Tmpl("Blocked: Cannot delete protected branch '"),
      Value("branchToDelete", branch),
      Tmpl("' from remote.\nThis is a destructive operation that cannot be undone.")>>

\* the outcomes of execSync('git branch --show-current', {timeout: 5000}):
\* the trimmed branch name ("" on a detached HEAD), or a failure / timeout
Branches == {<<"m","a","i","n">>, <<"m","a","s","t","e","r">>, <<"p","r","o","d","u","c","t","i","o","n">>, <<"f","e","a","t","u","r","e","/","x">>, <<>>}
LookupResults ==
    {[ok |-> TRUE, branch |-> b] : b \in Branches}
        \cup {[ok |-> FALSE, branch |-> <<>>]}

\* main, line 105: const event = await readStdin({ failClosed: true })
ReadStdin ==
    /\ pc = "readStdin"
    /\ hook \in {"branch-protection", "secrets-blocker", "readStdin"}
    /\ LET r == readStdin(stdin, document, failClosed)
       IN  /\ event' = r.value
           /\ Apply(r.o, "main")
    /\ UNCHANGED beyondHook
    /\ UNCHANGED <<hook, failClosed, stdin, document, command, currentBranch,
                   pushTarget, filePath, content, findings>>

\* main, line 106: const command = event.tool_input?.command || ''
\* (a null event makes the property access throw)
BranchCommand ==
    /\ pc = "main"
    /\ hook = "branch-protection"
    /\ IF event.t = "null"
       THEN pc' = "catch" /\ UNCHANGED command
       ELSE /\ command' = OrElse(Prop(event, "command"), Str(<<>>))
            /\ pc' = "lookup"
    /\ UNCHANGED beyondHook
    /\ UNCHANGED <<hook, failClosed, stdin, document, event, exitCodes, stdout,
                   stderr, currentBranch, pushTarget, filePath, content,
                   findings>>

\* the lookup with a failure that blocks
BranchLookupFailClosed ==
    /\ pc = "lookup"
    /\ \E r \in LookupResults :
          IF r.ok
          THEN /\ currentBranch' = Some(r.branch)
               /\ pc' = "dangerous"
               /\ UNCHANGED <<exitCodes, stdout, stderr>>
          ELSE /\ Apply(blockAndExit(<<Tmpl("Blocked: no current branch")>>),
                        "dangerous")
               /\ UNCHANGED currentBranch
    /\ UNCHANGED beyondHook
    /\ UNCHANGED <<hook, failClosed, stdin, document, event, command,
                   pushTarget, filePath, content, findings>>

\* main, lines 108-118: the current-branch lookup; a failure allows
BranchLookup ==
    /\ pc = "lookup"
    /\ \E r \in LookupResults :
          IF r.ok
          THEN /\ currentBranch' = Some(r.branch)
               /\ pc' = "dangerous"
               /\ UNCHANGED <<exitCodes, stdout, stderr>>
          ELSE /\ Apply(allowAndExit, "dangerous")
               /\ UNCHANGED currentBranch
    /\ UNCHANGED beyondHook
    /\ UNCHANGED <<hook, failClosed, stdin, document, event, command,
                   pushTarget, filePath, content, findings>>

\* RegExp.prototype.test(command) converts its argument to a string
CommandText == command.v

\* main, lines 120-132: destructive operations on a protected branch
BranchDangerous ==
    /\ pc = "dangerous"
    /\ IF Includes(PROTECTED_BRANCHES, currentBranch[1]) /\ IsDangerous(CommandText)
       THEN Apply(blockAndExit(DangerousMessage(currentBranch[1])), "push")
       ELSE Apply(Continue, "push")
    /\ UNCHANGED beyondHook
    /\ UNCHANGED <<hook, failClosed, stdin, document, event, command,
                   currentBranch, pushTarget, filePath, content, findings>>

\* main, lines 134-141: direct push to a protected branch
\* (command.match of a command that is no string throws)
BranchPush ==
    /\ pc = "push"
    /\ IF command.t # "string"
       THEN pc' = "catch" /\ UNCHANGED <<pushTarget, exitCodes, stdout, stderr>>
       ELSE /\ pushTarget' = extractPushTarget(command.v)
            /\ IF pushTarget' # None
               THEN Apply(blockAndExit(PushMessage(pushTarget'[1])), "delete")
               ELSE Apply(Continue, "delete")
    /\ UNCHANGED beyondHook
    /\ UNCHANGED <<hook, failClosed, stdin, document, event, command,
                   currentBranch, filePath, content, findings>>

\* main, lines 143-158: remote deletion of a protected branch, else allow
BranchDelete ==
    /\ pc = "delete"
    /\ IF ProtectedDeletion(command.v) # None
       THEN Apply(blockAndExit(DeleteMessage(ProtectedDeletion(command.v)[1])), "exited")
       ELSE Apply(allowAndExit, "exited")
    /\ UNCHANGED beyondHook
    /\ UNCHANGED <<hook, failClosed, stdin, document, event, command,
                   currentBranch, pushTarget, filePath, content, findings>>

\* main().catch of branch-protection.js and secrets-blocker.js
CatchMessage(h) ==
    IF h = "branch-protection"
    THEN <<Tmpl("branch-protection error: "), ErrText>>
    ELSE <<Tmpl("secrets-blocker error: "), ErrText>>

-----------------------------------------------------------------------------
(* Buffer.from(text, 'base64').toString('utf8')                            *)

\* the base64 alphabet; the value of a character is its index minus one
Base64Chars == <<
    "A","B","C","D","E","F","G","H","I","J","K","L","M","N","O","P",
    "Q","R","S","T","U","V","W","X","Y","Z","a","b","c","d","e","f",
    "g","h","i","j","k","l","m","n","o","p","q","r","s","t","u","v",
    "w","x","y","z","0","1","2","3","4","5","6","7","8","9","+","/" >>

\* the printable ASCII characters, from code 32 to code 126 (the grave
\* accent, code 96, is written BACKTICK)
AsciiChars == <<
    " ","!","\"","#","$","%","&","'","(",")","*","+",",","-",".","/",
    "0","1","2","3","4","5","6","7","8","9",":",";","<","=",">","?",
    "@","A","B","C","D","E","F","G","H","I","J","K","L","M","N","O",
    "P","Q","R","S","T","U","V","W","X","Y","Z","[","\\","]","^","_",
    "BACKTICK","a","b","c","d","e","f","g","h","i","j","k","l","m","n","o",
    "p","q","r","s","t","u","v","w","x","y","z","{","|","}","~" >>

\* the decoder also takes the URL-safe characters
Base64Value(c) ==
    IF c = "-" THEN 62
    ELSE IF c = "_" THEN 63
    ELSE (CHOOSE i \in DOMAIN Base64Chars : Base64Chars[i] = c) - 1

IsBase64Char(c) == c \in {Base64Chars[i] : i \in DOMAIN Base64Chars} \cup {"-", "_"}

\* the bytes of the 6-bit values v[i..]
RECURSIVE Base64Bytes(_, _)
Base64Bytes(v, i) ==
    LET left == Len(v) - i + 1
        b1 == v[i] * 4 + v[i + 1] \div 16
        b2 == (v[i + 1] % 16) * 16 + v[i + 2] \div 4
        b3 == (v[i + 2] % 4) * 64 + v[i + 3]
    IN  IF left < 2 THEN <<>>
        ELSE IF left = 2 THEN <<b1>>
        ELSE IF left = 3 THEN <<b1, b2>>
        ELSE <<b1, b2, b3>> \o Base64Bytes(v, i + 4)

\* a decoded byte as a character of the text: a control character other
\* than \t \n \r is "CTL"; a byte above 127 is "HI" (it decodes to a
\* character outside ASCII, or to U+FFFD)
ByteChar(b) ==
    IF b >= 32 /\ b <= 126 THEN AsciiChars[b - 31]
    ELSE IF b = 9 THEN "\t"
    ELSE IF b = 10 THEN "\n"
    ELSE IF b = 13 THEN "\r"
    ELSE IF b > 126 THEN "HI"
    ELSE "CTL"

\* decoding stops at the first '='; characters outside the alphabet are
\* skipped
Base64Decode(text) ==
    LET Chars(bytes) == [i \in DOMAIN bytes |-> ByteChar(bytes[i])]
        Bytes(used) ==
            Chars(Base64Bytes([i \in DOMAIN used |-> Base64Value(used[i])], 1))
        body == SubSeq(text, 1, MinOr({i \in 1..Len(text) : text[i] = "="},
                                      Len(text) + 1) - 1)
    IN  Bytes(SelectSeq(body, IsBase64Char))

-----------------------------------------------------------------------------
(* JSON.parse of a token payload.  The payloads read here are objects      *)
(* whose values are strings without escapes, numbers, true, false or null; *)
(* any other text counts as unparsable.                                    *)

JsonSpace == {" ", "\t", "\n", "\r"}
JsonStringChar == {"\"", "\\", "CTL", "\n", "\r", "\t"}

\* "chars" at index i: Some(<<text, index after>>) or None
JsonString(s, i) ==
    IF i > Len(s) \/ s[i] # "\"" THEN None
    ELSE LET Closed(n) ==
                 IF i + 1 + n > Len(s) \/ s[i + 1 + n] # "\"" THEN None
                 ELSE Some(<<SubSeq(s, i + 1, i + n), i + n + 2>>)
         IN  Closed(ClassRun(s, i + 1, JsonStringChar, TRUE, FALSE, -1))

\* a number, true, false or null at index i: Some(<<kind, index after>>)
JsonScalar(s, i) ==
    LET Scalar(digits) ==
            IF digits > 0 /\ (digits = 1 \/ s[i] # "0")
            THEN Some(<<IF SubSeq(s, i, i + digits - 1) = <<"0">>
                        THEN "zero" ELSE "number",
                        i + digits>>)
            ELSE IF LitAt(s, i, <<"t","r","u","e">>) THEN Some(<<"true", i + 4>>)
            ELSE IF LitAt(s, i, <<"f","a","l","s","e">>) THEN Some(<<"false", i + 5>>)
            ELSE IF LitAt(s, i, <<"n","u","l","l">>) THEN Some(<<"null", i + 4>>)
            ELSE None
    IN  Scalar(ClassRun(s, i, Digits, FALSE, FALSE, -1))

SkipJsonSpace(s, i) == i + ClassRun(s, i, JsonSpace, FALSE, FALSE, -1)

\* the members of an object from index i (after '{' or ','):
\* Some(members) or None; a member is [key, kind, text]
RECURSIVE JsonMembers(_, _)
JsonMembers(s, i) ==
    LET More(member, rest) ==
            IF rest = None THEN None ELSE Some(<<member>> \o rest[1])
        \* after the value: '}' ends the object, ',' continues it
        After(member, e) ==
            IF e > Len(s) THEN None
            ELSE IF s[e] = "}"
                 THEN IF SkipJsonSpace(s, e + 1) = Len(s) + 1 THEN Some(<<member>>)
                      ELSE None
            ELSE IF s[e] # "," THEN None
            ELSE More(member, JsonMembers(s, e + 1))
        \* the value: a string sv or a scalar nv
        Member(key, sv, nv) ==
            IF sv # None
            THEN After([key |-> key, kind |-> "string", text |-> sv[1][1]],
                       SkipJsonSpace(s, sv[1][2]))
            ELSE IF nv # None
            THEN After([key |-> key, kind |-> nv[1][1], text |-> <<>>],
                       SkipJsonSpace(s, nv[1][2]))
            ELSE None
        ValueAt(key, v) == Member(key, JsonString(s, v), JsonScalar(s, v))
        Colon(key, c) ==
            IF c > Len(s) \/ s[c] # ":" THEN None
            ELSE ValueAt(key, SkipJsonSpace(s, c + 1))
        Key(k) == IF k = None THEN None ELSE Colon(k[1][1], SkipJsonSpace(s, k[1][2]))
    IN  Key(JsonString(s, SkipJsonSpace(s, i)))

\* JSON.parse(text) of an object: Some(members) or None (it throws)
JsonParseObject(s) ==
    LET Body(i, j) ==
            IF j <= Len(s) /\ s[j] = "}"
            THEN IF SkipJsonSpace(s, j + 1) = Len(s) + 1 THEN Some(<<>>) ELSE None
            ELSE JsonMembers(s, i + 1)
        Open(i) ==
            IF i > Len(s) \/ s[i] # "{" THEN None
            ELSE Body(i, SkipJsonSpace(s, i + 1))
    IN  Open(SkipJsonSpace(s, 1))

\* parsed[key]: the last member of that name, or an undefined member
JsonGet(members, key) ==
    LET at == {i \in DOMAIN members : members[i].key = key}
    IN  IF at = {} THEN [key |-> key, kind |-> "undefined", text |-> <<>>]
        ELSE members[CHOOSE i \in at : \A j \in at : j <= i]

-----------------------------------------------------------------------------
(* secrets-blocker.js                                                      *)

UpperDigits  == UpperSet \cup Digits                \* [0-9A-Z]
TokenSet     == Alnum \cup {"_", "-"}               \* [A-Za-z0-9_-], [\w-]
SlackSet     == Alnum \cup {"-"}                    \* [0-9A-Za-z-]
AwsSecretSet == Alnum \cup {"/", "+", "="}          \* [A-Za-z0-9/+=]
Base64Set    == Alnum \cup {"+", "/"}               \* [A-Za-z0-9+/]
HexSet       == Digits \cup {"a","b","c","d","e","f","A","B","C","D","E","F"}
HexLowerSet  == Digits \cup {"a","b","c","d","e","f"}
Quotes       == {"'", "\""}                         \* ['"]
Sep          == {"_", "-"}                          \* [_-]
Assign       == {":", "="}                          \* [:=]
At           == <<"@">>

\* Extra skip patterns for secrets (beyond base set)
EXTRA_SKIP_PATTERNS == <<
    Regex(<<Lit(<<".","e","x","a","m","p","l","e">>), Eos>>, TRUE),
    Regex(<<Lit(<<".","s","a","m","p","l","e">>), Eos>>, TRUE),
    Regex(<<Lit(<<".","t","e","m","p","l","a","t","e">>), Eos>>, TRUE) >>

\* /^<word>$/i
Exactly(word) == Regex(<<Bos, Lit(word), Eos>>, TRUE)

\* Allowlisted patterns (placeholder/example values)
ALLOWLIST_PATTERNS == <<
    \* /^your[_-]?(api)?[_-]?key$/i
    Regex(<<Bos, Lit(<<"y","o","u","r">>), Rep(Sep, 0, 1), Opt(<<Lit(<<"a","p","i">>)>>),
            Rep(Sep, 0, 1), Lit(<<"k","e","y">>), Eos>>, TRUE),
    \* /^xxx+$/i
    Regex(<<Bos, Lit(<<"x","x">>), Many({"x"}, 1), Eos>>, TRUE),
    Exactly(<<"p","l","a","c","e","h","o","l","d","e","r">>),
    Exactly(<<"c","h","a","n","g","e","m","e">>),
    Exactly(<<"s","e","c","r","e","t">>),
    Exactly(<<"p","a","s","s","w","o","r","d">>),
    \* /^sk[_-]test[_-]/i and /^pk[_-]test[_-]/i
    Regex(<<Bos, Lit(<<"s","k">>), One(Sep), Lit(<<"t","e","s","t">>), One(Sep)>>, TRUE),
    Regex(<<Bos, Lit(<<"p","k">>), One(Sep), Lit(<<"t","e","s","t">>), One(Sep)>>, TRUE),
    Exactly(<<"e","x","a","m","p","l","e">>),
    \* /^test[_-]?key$/i
    Regex(<<Bos, Lit(<<"t","e","s","t">>), Rep(Sep, 0, 1), Lit(<<"k","e","y">>), Eos>>, TRUE),
    Exactly(<<"d","u","m","m","y">>),
    Exactly(<<"f","a","k","e">>),
    Exactly(<<"s","a","m","p","l","e">>),
    Exactly(<<"d","e","m","o">>),
    \* /<[^>]+>/
    Regex(<<Lit(<<"<">>), ManyNot({">"}, 1), Lit(<<">">>)>>, FALSE),
    \* /\$\{[^}]+\}/
    Regex(<<Lit(<<"$","{">>), ManyNot({"}"}, 1), Lit(<<"}">>)>>, FALSE),
    \* /\{\{[^}]+\}\}/
    Regex(<<Lit(<<"{","{">>), ManyNot({"}"}, 1), Lit(<<"}","}">>)>>, FALSE),
    \* /process\.env\./i, /getenv\(/i, /os\.environ/i
    Regex(<<Lit(<<"p","r","o","c","e","s","s",".","e","n","v",".">>)>>, TRUE),
    Regex(<<Lit(<<"g","e","t","e","n","v","(">>)>>, TRUE),
    Regex(<<Lit(<<"o","s",".","e","n","v","i","r","o","n">>)>>, TRUE) >>

\* /\b(<prefix>[set]{n})\b/
FixedToken(prefix, set, n) ==
    Regex(<<WordB, Lit(prefix), Rep(set, n, n), WordB>>, FALSE)

\* /\b(<prefix>[set]{n,})\b/
LongToken(prefix, set, n) ==
    Regex(<<WordB, Lit(prefix), Many(set, n), WordB>>, FALSE)

\* High-confidence patterns used to rescan decoded base64 content
BASE64_RESCAN_PATTERNS == <<
    Regex(<<Lit(<<"A","K","I","A">>), Rep(UpperDigits, 16, 16)>>, FALSE),
    Regex(<<Lit(<<"g","h","p","_">>), Rep(Alnum, 36, 36)>>, FALSE),
    Regex(<<Lit(<<"g","h","o","_">>), Rep(Alnum, 36, 36)>>, FALSE),
    Regex(<<Lit(<<"g","h","u","_">>), Rep(Alnum, 36, 36)>>, FALSE),
    Regex(<<Lit(<<"g","h","s","_">>), Rep(Alnum, 36, 36)>>, FALSE),
    Regex(<<Lit(<<"g","l","p","a","t","-">>), Many(TokenSet, 20)>>, FALSE),
    Regex(<<Lit(<<"s","k","_","l","i","v","e","_">>), Many(Alnum, 24)>>, FALSE),
    Regex(<<Lit(<<"p","k","_","l","i","v","e","_">>), Many(Alnum, 24)>>, FALSE),
    Regex(<<Lit(<<"x","o","x">>), One({"b","a","p","r","s"}), Lit(<<"-">>),
            Many(SlackSet, 10)>>, FALSE),
    Regex(<<Lit(<<"S","G",".">>), Rep(TokenSet, 22, 22), Lit(<<".">>)>>, FALSE),
    Regex(<<Lit(<<"-","-","-","-","-","B","E","G","I","N">>), AnyMany, Lit(<<"P","R","I","V","A","T","E"," ","K","E","Y","-","-","-","-","-">>)>>, FALSE),
    Regex(<<Lit(<<"n","p","m","_">>), Rep(Alnum, 36, 36)>>, FALSE),
    Regex(<<Lit(<<"A","I","z","a">>), Rep(TokenSet, 35, 35)>>, FALSE) >>

Rule(name, pattern, context, validator, description) ==
    [name |-> name, pattern |-> pattern, context |-> context,
     validator |-> validator, description |-> description]

\* Secret detection patterns
SECRET_PATTERNS == <<
    Rule(<<"A","W","S"," ","A","c","c","e","s","s"," ","K","e","y"," ","I","D">>, FixedToken(<<"A","K","I","A">>, UpperDigits, 16), <<>>, "none",
         "AWS access key (starts with AKIA)"),
    Rule(<<"A","W","S"," ","S","e","c","r","e","t"," ","A","c","c","e","s","s"," ","K","e","y">>, FixedToken(<<>>, AwsSecretSet, 40),
         \* /aws[_-]?secret|secret[_-]?access[_-]?key/i
         <<Regex(<<Alt(<<
              <<Lit(<<"a","w","s">>), Rep(Sep, 0, 1), Lit(<<"s","e","c","r","e","t">>)>>,
              <<Lit(<<"s","e","c","r","e","t">>), Rep(Sep, 0, 1), Lit(<<"a","c","c","e","s","s">>), Rep(Sep, 0, 1),
                Lit(<<"k","e","y">>)>> >>)>>, TRUE)>>,
         "none", "AWS secret key (40 char base64)"),
    Rule(<<"G","i","t","H","u","b"," ","P","e","r","s","o","n","a","l"," ","A","c","c","e","s","s"," ","T","o","k","e","n">>, FixedToken(<<"g","h","p","_">>, Alnum, 36), <<>>,
         "none", "GitHub PAT (starts with ghp_)"),
    Rule(<<"G","i","t","H","u","b"," ","O","A","u","t","h"," ","T","o","k","e","n">>, FixedToken(<<"g","h","o","_">>, Alnum, 36), <<>>, "none",
         "GitHub OAuth (starts with gho_)"),
    \* /\b(ghu_[A-Za-z0-9]{36}|ghs_[A-Za-z0-9]{36})\b/g
    Rule(<<"G","i","t","H","u","b"," ","A","p","p"," ","T","o","k","e","n">>,
         Regex(<<WordB, Alt(<< <<Lit(<<"g","h","u","_">>), Rep(Alnum, 36, 36)>>,
                              <<Lit(<<"g","h","s","_">>), Rep(Alnum, 36, 36)>> >>), WordB>>,
               FALSE),
         <<>>, "none", "GitHub App token"),
    Rule(<<"G","i","t","L","a","b"," ","T","o","k","e","n">>, LongToken(<<"g","l","p","a","t","-">>, TokenSet, 20), <<>>, "none",
         "GitLab personal access token"),
    Rule(<<"S","t","r","i","p","e"," ","L","i","v","e"," ","S","e","c","r","e","t"," ","K","e","y">>, LongToken(<<"s","k","_","l","i","v","e","_">>, Alnum, 24), <<>>, "none",
         "Stripe live secret key"),
    Rule(<<"S","t","r","i","p","e"," ","L","i","v","e"," ","P","u","b","l","i","s","h","a","b","l","e"," ","K","e","y">>, LongToken(<<"p","k","_","l","i","v","e","_">>, Alnum, 24), <<>>,
         "none", "Stripe live publishable key"),
    \* /\b(xox[baprs]-[0-9A-Za-z-]{10,})\b/g
    Rule(<<"S","l","a","c","k"," ","T","o","k","e","n">>,
         Regex(<<WordB, Lit(<<"x","o","x">>), One({"b","a","p","r","s"}), Lit(<<"-">>),
                 Many(SlackSet, 10), WordB>>, FALSE),
         <<>>, "none", "Slack API token"),
    \* /\b([MN][A-Za-z0-9]{23,}\.[\w-]{6}\.[\w-]{27})\b/g
    Rule(<<"D","i","s","c","o","r","d"," ","T","o","k","e","n">>,
         Regex(<<WordB, One({"M", "N"}), Many(Alnum, 23), Lit(<<".">>),
                 Rep(TokenSet, 6, 6), Lit(<<".">>), Rep(TokenSet, 27, 27), WordB>>,
               FALSE),
         <<>>, "none", "Discord bot/user token"),
    Rule(<<"T","w","i","l","i","o"," ","A","P","I"," ","K","e","y">>, FixedToken(<<"S","K">>, HexSet, 32), <<>>, "none",
         "Twilio API key"),
    \* /\b(SG\.[A-Za-z0-9_-]{22}\.[A-Za-z0-9_-]{43})\b/g
    Rule(<<"S","e","n","d","G","r","i","d"," ","A","P","I"," ","K","e","y">>,
         Regex(<<WordB, Lit(<<"S","G",".">>), Rep(TokenSet, 22, 22), Lit(<<".">>),
                 Rep(TokenSet, 43, 43), WordB>>, FALSE),
         <<>>, "none", "SendGrid API key"),
    \* /\b(?:api[_-]?key|apikey|api[_-]?secret|secret[_-]?key)\s*[:=]\s*
    \*   (['"]?)([A-Za-z0-9_-]{20,})\1/gi
    \* the group (['"]?) and its back-reference \1, one alternative for each
    \* text the group can capture
    Rule(<<"G","e","n","e","r","i","c"," ","A","P","I"," ","K","e","y">>,
         Regex(<<WordB,
                 Alt(<< <<Lit(<<"a","p","i">>), Rep(Sep, 0, 1), Lit(<<"k","e","y">>)>>,
                        <<Lit(<<"a","p","i","k","e","y">>)>>,
                        <<Lit(<<"a","p","i">>), Rep(Sep, 0, 1), Lit(<<"s","e","c","r","e","t">>)>>,
                        <<Lit(<<"s","e","c","r","e","t">>), Rep(Sep, 0, 1), Lit(<<"k","e","y">>)>> >>),
                 Many(Space, 0), One(Assign), Many(Space, 0),
                 Alt(<< <<Lit(<<"'">>), Many(TokenSet, 20), Lit(<<"'">>)>>,
                        <<Lit(<<"\"">>), Many(TokenSet, 20), Lit(<<"\"">>)>>,
                        <<Many(TokenSet, 20)>> >>)>>, TRUE),
         <<>>, "none", "Generic API key assignment"),
    \* /-----BEGIN\s+(?:RSA\s+)?PRIVATE\s+KEY-----/gi
    Rule(<<"P","r","i","v","a","t","e"," ","K","e","y">>,
         Regex(<<Lit(<<"-","-","-","-","-","B","E","G","I","N">>), Many(Space, 1),
                 Opt(<<Lit(<<"R","S","A">>), Many(Space, 1)>>), Lit(<<"P","R","I","V","A","T","E">>),
                 Many(Space, 1), Lit(<<"K","E","Y","-","-","-","-","-">>)>>, TRUE),
         <<>>, "none", "RSA/DSA/EC private key"),
    \* /-----BEGIN\s+PGP\s+PRIVATE\s+KEY\s+BLOCK-----/gi
    Rule(<<"P","G","P"," ","P","r","i","v","a","t","e"," ","K","e","y">>,
         Regex(<<Lit(<<"-","-","-","-","-","B","E","G","I","N">>), Many(Space, 1), Lit(<<"P","G","P">>), Many(Space, 1),
                 Lit(<<"P","R","I","V","A","T","E">>), Many(Space, 1), Lit(<<"K","E","Y">>), Many(Space, 1),
                 Lit(<<"B","L","O","C","K","-","-","-","-","-">>)>>, TRUE),
         <<>>, "none", "PGP private key block"),
    \* /(?:mysql|postgres|postgresql|mongodb|redis):\/\/[^:]+:([^@\s]+)@/gi
    Rule(<<"D","a","t","a","b","a","s","e"," ","C","o","n","n","e","c","t","i","o","n"," ","S","t","r","i","n","g">>,
         Regex(<<Alt(<< <<Lit(<<"m","y","s","q","l">>)>>, <<Lit(<<"p","o","s","t","g","r","e","s">>)>>,
                        <<Lit(<<"p","o","s","t","g","r","e","s","q","l">>)>>, <<Lit(<<"m","o","n","g","o","d","b">>)>>,
                        <<Lit(<<"r","e","d","i","s">>)>> >>),
                 Lit(<<":","/","/">>), ManyNot({":"}, 1), Lit(<<":">>),
                 ManyNot({At[1]} \cup Space, 1), Lit(At)>>, TRUE),
         <<>>, "none", "Database URL with password"),
    \* /\b(?:password|passwd|pwd)\s*[:=]\s*['"]([^'"]{8,})['"]/gi
    Rule(<<"P","a","s","s","w","o","r","d"," ","A","s","s","i","g","n","m","e","n","t">>,
         Regex(<<WordB,
                 Alt(<< <<Lit(<<"p","a","s","s","w","o","r","d">>)>>, <<Lit(<<"p","a","s","s","w","d">>)>>, <<Lit(<<"p","w","d">>)>> >>),
                 Many(Space, 0), One(Assign), Many(Space, 0), One(Quotes),
                 ManyNot(Quotes, 8), One(Quotes)>>, TRUE),
         <<>>, "password", "Hardcoded password"),
    \* /\beyJ[A-Za-z0-9_-]{10,}\.eyJ[A-Za-z0-9_-]{10,}\.[A-Za-z0-9_-]{10,}\b/g
    Rule(<<"J","W","T"," ","T","o","k","e","n">>,
         Regex(<<WordB, Lit(<<"e","y","J">>), Many(TokenSet, 10), Lit(<<".">>), Lit(<<"e","y","J">>),
                 Many(TokenSet, 10), Lit(<<".">>), Many(TokenSet, 10), WordB>>, FALSE),
         <<>>, "jwt", "JSON Web Token (skips test/example payloads)"),
    \* /\bBearer\s+([A-Za-z0-9_-]{20,})\b/gi
    Rule(<<"B","e","a","r","e","r"," ","T","o","k","e","n">>,
         Regex(<<WordB, Lit(<<"B","e","a","r","e","r">>), Many(Space, 1), Many(TokenSet, 20), WordB>>,
               TRUE),
         <<>>, "none", "Bearer authentication token"),
    Rule(<<"G","o","o","g","l","e"," ","A","P","I"," ","K","e","y">>, FixedToken(<<"A","I","z","a">>, TokenSet, 35), <<>>, "none",
         "Google API key"),
    \* /\bAAAA[A-Za-z0-9_-]{7}:[A-Za-z0-9_-]{140}\b/g
    Rule(<<"F","i","r","e","b","a","s","e"," ","K","e","y">>,
         Regex(<<WordB, Lit(<<"A","A","A","A">>), Rep(TokenSet, 7, 7), Lit(<<":">>),
                 Rep(TokenSet, 140, 140), WordB>>, FALSE),
         <<>>, "none", "Firebase Cloud Messaging key"),
    Rule(<<"n","p","m"," ","T","o","k","e","n">>, FixedToken(<<"n","p","m","_">>, Alnum, 36), <<>>, "none",
         "npm access token"),
    \* /\b[0-9a-f]{8}-[0-9a-f]{4}-[0-9a-f]{4}-[0-9a-f]{4}-[0-9a-f]{12}\b/gi
    Rule(<<"H","e","r","o","k","u"," ","A","P","I"," ","K","e","y">>,
         Regex(<<WordB, Rep(HexLowerSet, 8, 8), Lit(<<"-">>), Rep(HexLowerSet, 4, 4),
                 Lit(<<"-">>), Rep(HexLowerSet, 4, 4), Lit(<<"-">>),
                 Rep(HexLowerSet, 4, 4), Lit(<<"-">>), Rep(HexLowerSet, 12, 12),
                 WordB>>, TRUE),
         <<Regex(<<Lit(<<"h","e","r","o","k","u">>)>>, TRUE)>>, "none",
         "Heroku API key (UUID format)"),
    \* /\b[A-Za-z0-9+/]{40,}={0,2}\b/g
    Rule(<<"B","a","s","e","6","4","-","E","n","c","o","d","e","d"," ","S","e","c","r","e","t">>,
         Regex(<<WordB, Many(Base64Set, 40), Rep({"="}, 0, 2), WordB>>, FALSE),
         <<>>, "base64", "Base64-encoded secret (decoded and rescanned)"),
    \* /['"](?:sk_|pk_|ghp_|gho_|ghu_|ghs_|glpat-|xox[baprs]-|npm_|AKIA|AIza)['"]\s*\+/g
    Rule(<<"C","o","n","c","a","t","e","n","a","t","e","d"," ","S","e","c","r","e","t"," ","P","r","e","f","i","x">>,
         Regex(<<One(Quotes),
                 Alt(<< <<Lit(<<"s","k","_">>)>>, <<Lit(<<"p","k","_">>)>>, <<Lit(<<"g","h","p","_">>)>>,
                        <<Lit(<<"g","h","o","_">>)>>, <<Lit(<<"g","h","u","_">>)>>, <<Lit(<<"g","h","s","_">>)>>,
                        <<Lit(<<"g","l","p","a","t","-">>)>>,
                        <<Lit(<<"x","o","x">>), One({"b","a","p","r","s"}), Lit(<<"-">>)>>,
                        <<Lit(<<"n","p","m","_">>)>>, <<Lit(<<"A","K","I","A">>)>>, <<Lit(<<"A","I","z","a">>)>> >>),
                 One(Quotes), Many(Space, 0), Lit(<<"+">>)>>, FALSE),
         <<>>, "none",
         "Secret prefix in string concatenation (possible obfuscation)") >>

\* the validator of 'Password Assignment'
PasswordValidator(match) ==
    LET lower == ToLowerCase(match)
    IN  ~\E p \in {<<"p","a","s","s","w","o","r","d">>, <<"c","h","a","n","g","e","m","e">>, <<"s","e","c","r","e","t">>, <<"t","e","s","t">>, <<"e","x","a","m","p","l","e">>,
                   <<"p","l","a","c","e","h","o","l","d","e","r">>} : Contains(lower, p)

\* String.prototype.replace(/<from>/g, to) for single characters
ReplaceChar(s, from, to) == [i \in DOMAIN s |-> IF s[i] = from THEN to ELSE s[i]]

\* (parsed.<key> || '').toLowerCase() throws for a truthy value that is no
\* string
ClaimThrows(m) == m.kind \in {"number", "true"}
ClaimText(m) == IF m.kind = "string" THEN ToLowerCase(m.text) ELSE <<>>

\* the validator of 'JWT Token': false only for a decodable payload whose
\* sub or iss holds a test marker
\* the validator of 'JWT Token' with `catch { return false; }`
JwtValidatorRejectsOnThrow(match) ==
    LET Claims(sub, iss) ==
            IF ClaimThrows(sub) \/ ClaimThrows(iss) THEN FALSE
            ELSE ~\E t \in {<<"t","e","s","t">>, <<"e","x","a","m","p","l","e">>, <<"d","e","m","o">>, <<"f","a","k","e">>, <<"s","a","m","p","l","e">>,
                            <<"l","o","c","a","l","h","o","s","t">>} :
                     Contains(ClaimText(sub), t) \/ Contains(ClaimText(iss), t)
        Parsed(parsed) ==
            IF parsed = None THEN FALSE
            ELSE Claims(JsonGet(parsed[1], <<"s","u","b">>), JsonGet(parsed[1], <<"i","s","s">>))
        Payload(parts) ==
            IF Len(parts) < 2 THEN FALSE
            ELSE Parsed(JsonParseObject(Base64Decode(
                     ReplaceChar(ReplaceChar(parts[2], "-", "+"), "_", "/"))))
    IN  Payload(SplitOn(match, "."))

JwtValidator(match) ==
    LET Claims(sub, iss) ==
            IF ClaimThrows(sub) \/ ClaimThrows(iss) THEN TRUE
            ELSE ~\E t \in {<<"t","e","s","t">>, <<"e","x","a","m","p","l","e">>, <<"d","e","m","o">>, <<"f","a","k","e">>, <<"s","a","m","p","l","e">>,
                            <<"l","o","c","a","l","h","o","s","t">>} :
                     Contains(ClaimText(sub), t) \/ Contains(ClaimText(iss), t)
        Parsed(parsed) ==
            IF parsed = None THEN TRUE
            ELSE Claims(JsonGet(parsed[1], <<"s","u","b">>), JsonGet(parsed[1], <<"i","s","s">>))
        Payload(parts) ==
            IF Len(parts) < 2 THEN TRUE
            ELSE Parsed(JsonParseObject(Base64Decode(
                     ReplaceChar(ReplaceChar(parts[2], "-", "+"), "_", "/"))))
    IN  Payload(SplitOn(match, "."))

\* /^[\x20-\x7E\n\r\t]+$/.test(decoded)
IsPrintable(decoded) ==
    /\ decoded # <<>>
    /\ \A i \in DOMAIN decoded : decoded[i] \notin {"HI", "CTL"}

\* the validator of 'Base64-Encoded Secret'
Base64Validator(match) ==
    LET Rescan(decoded) ==
            /\ IsPrintable(decoded)
            /\ \E k \in DOMAIN BASE64_RESCAN_PATTERNS :
                  Test(BASE64_RESCAN_PATTERNS[k], decoded)
    IN  Rescan(Base64Decode(match))

\* secret.validator && !secret.validator(actual)
Validate(rule, actual) ==
    CASE rule.validator = "none"     -> TRUE
      [] rule.validator = "password" -> PasswordValidator(actual)
      [] rule.validator = "jwt"      -> JwtValidator(actual)
      [] rule.validator = "base64"   -> Base64Validator(actual)

\* match.replace(/^.*[:=]\s*['"]?/, '').replace(/['"]?\s*$/, '')
ExtractActual(match) ==
    LET head == Regex(<<Bos, AnyMany, One(Assign), Many(Space, 0),
                        Rep(Quotes, 0, 1)>>, FALSE)
        tail == Regex(<<Rep(Quotes, 0, 1), Many(Space, 0), Eos>>, FALSE)
        CutTail(rest) == SubSeq(rest, 1, Search(tail, rest, 1) - 1)
        CutHead(e) == CutTail(IF e = 0 THEN match ELSE From(match, e))
    IN  CutHead(MatchEnd(head, match, 1))

\* '*'.repeat(n)
Stars(n) == [i \in 1..n |-> "*"]

\* the masking of detectSecrets
MaskSecret(actual, match) ==
    LET toMask == IF Len(actual) > 8 THEN actual ELSE match
    IN  IF Len(toMask) > 10
        THEN SubSeq(toMask, 1, 4)
                 \o Stars(IF Len(toMask) - 8 < 16 THEN Len(toMask) - 8 ELSE 16)
                 \o SubSeq(toMask, Len(toMask) - 3, Len(toMask))
        ELSE <<"*","*","*">>

\* the body of the inner loop of detectSecrets for one match m of a rule:
\* the finding it pushes, if any
SecretFinding(rule, text, m) ==
    LET Checked(actual) ==
            IF isAllowlisted(actual, ALLOWLIST_PATTERNS)
                  \/ isAllowlisted(m.text, ALLOWLIST_PATTERNS)
            THEN <<>>
            ELSE IF ~Validate(rule, actual) THEN <<>>
            ELSE <<[type |-> rule.name, masked |-> MaskSecret(actual, m.text),
                    description |-> rule.description]>>
    IN  IF rule.context # <<>>
              /\ ~hasNearbyContext(text, m.index, rule.context[1], DefaultLineRadius)
        THEN <<>>
        ELSE Checked(ExtractActual(m.text))

\* the findings of the matches ms[i..] of one rule
RECURSIVE RuleFindings(_, _, _, _)
RuleFindings(rule, text, ms, i) ==
    IF i > Len(ms) THEN <<>>
    ELSE SecretFinding(rule, text, ms[i]) \o RuleFindings(rule, text, ms, i + 1)

\* the loop over the rules with a return at the first rule that has findings
RECURSIVE ScanRulesFirstHit(_, _, _)
ScanRulesFirstHit(rules, text, k) ==
    LET Or(fs) == IF fs # <<>> THEN fs
                  ELSE ScanRulesFirstHit(rules, text, k + 1)
    IN  IF k > Len(rules) THEN <<>>
        ELSE Or(RuleFindings(rules[k], text,
                             MatchAll(rules[k].pattern, text, 1), 1))

\* the findings of the rules rules[k..], in order
RECURSIVE ScanRules(_, _, _)
ScanRules(rules, text, k) ==
    IF k > Len(rules) THEN <<>>
    ELSE RuleFindings(rules[k], text, MatchAll(rules[k].pattern, text, 1), 1)
             \o ScanRules(rules, text, k + 1)

\* detectSecrets(content, filePath)
detectSecrets(text) == deduplicateFindings(ScanRules(SECRET_PATTERNS, text, 1))

\* the loop of detectSecrets over rules[k..] with the scan position of every
\* pattern explicit: content.matchAll(secret.pattern) scans a copy of the
\* pattern that starts at the pattern's lastIndex li[k]
RECURSIVE ScanRulesAt(_, _, _, _)
ScanRulesAt(rules, text, k, li) ==
    IF k > Len(rules) THEN <<>>
    ELSE RuleFindings(rules[k], text,
                      MatchAll(rules[k].pattern, text, li[k] + 1), 1)
             \o ScanRulesAt(rules, text, k + 1, li)

\* pattern.exec(text) on a global pattern: the first match at or after
\* lastIndex, and the lastIndex it leaves in the pattern
ExecOnce(re, text, from) ==
    LET Found(i, e) ==
            [ms |-> <<[index |-> i - 1, text |-> SubSeq(text, i, e - 1)]>>,
             lastIndex |-> e - 1]
        Start(i) == IF i = 0 THEN [ms |-> <<>>, lastIndex |-> 0]
                    ELSE Found(i, MatchEnd(re, text, i))
    IN  Start(IF from > Len(text) THEN 0 ELSE Search(re, text, from + 1))

\* the findings of one exec per rule of rules[k..]
RECURSIVE ExecRules(_, _, _, _)
ExecRules(rules, text, k, li) ==
    IF k > Len(rules) THEN <<>>
    ELSE RuleFindings(rules[k], text,
                      ExecOnce(rules[k].pattern, text, li[k]).ms, 1)
             \o ExecRules(rules, text, k + 1, li)

\* how many times a detector is called in one process
MaxCalls == 2

\* detectSecrets written with one `secret.pattern.exec(content)` per rule
\* and without the reset of lastIndex
DetectSecretsExec ==
    /\ pc = "detect"
    /\ hook = "secrets-blocker"
    /\ Len(calls) < MaxCalls
    /\ lastIndex' = [k \in DOMAIN lastIndex |->
                        ExecOnce(SECRET_PATTERNS[k].pattern, content.v,
                                 lastIndex[k]).lastIndex]
    /\ calls' = Append(calls, deduplicateFindings(
                     ExecRules(SECRET_PATTERNS, content.v, 1, lastIndex)))
    /\ UNCHANGED <<hookVars, notifyVars, runnerVars>>

\* one call of detectSecrets(content) in a process that may have called it
\* before: every rule gets `secret.pattern.lastIndex = 0`, and matchAll
\* leaves the pattern as it is
DetectSecrets ==
    /\ pc = "detect"
    /\ hook = "secrets-blocker"
    /\ Len(calls) < MaxCalls
    /\ lastIndex' = [k \in DOMAIN lastIndex |-> 0]
    /\ calls' = Append(calls, deduplicateFindings(
                     ScanRulesAt(SECRET_PATTERNS, content.v, 1, lastIndex')))
    /\ UNCHANGED <<hookVars, notifyVars, runnerVars>>

\* the report of main
SecretsMessage(path, fs) ==
    <<Tmpl("Blocked: Potential secrets detected in "), Value("filePath", path),
      Tmpl("\n\nFindings:\n"),
      Value("list", formatFindings(fs, DefaultLimit).list),
      Value("more", formatFindings(fs, DefaultLimit).more),
      Tmpl("\n\nBest practices:\n- Use environment variables: process.env.API_KEY\n- Use .env files (add to .gitignore)\n- Use secret managers (AWS Secrets Manager, Vault)\n- For test keys, use sk_test_ or pk_test_ prefixes")>>

\* main, line 329: const { filePath, content } = parseHookEvent(event)
\* (a null event makes the property access throw)
SecretsParse ==
    /\ pc = "main"
    /\ hook = "secrets-blocker"
    /\ IF event.t = "null"
       THEN pc' = "catch" /\ UNCHANGED <<filePath, content>>
       ELSE /\ filePath' = parseHookEvent(event).filePath
            /\ content' = parseHookEvent(event).content
            /\ pc' = "skip"
    /\ UNCHANGED beyondHook
    /\ UNCHANGED <<hook, failClosed, stdin, document, event, exitCodes, stdout,
                   stderr, command, currentBranch, pushTarget, findings>>

\* main, line 331: if (shouldSkipFile(filePath, EXTRA_SKIP_PATTERNS))
\* allowAndExit()  (filePath.substring of a number throws)
SecretsSkip ==
    /\ pc = "skip"
    /\ hook = "secrets-blocker"
    /\ IF filePath.t # "string"
       THEN pc' = "catch" /\ UNCHANGED <<exitCodes, stdout, stderr>>
       ELSE IF shouldSkipFile(filePath.v, EXTRA_SKIP_PATTERNS)
       THEN Apply(allowAndExit, "blank")
       ELSE Apply(Continue, "blank")
    /\ UNCHANGED beyondHook
    /\ UNCHANGED <<hook, failClosed, stdin, document, event, command,
                   currentBranch, pushTarget, filePath, content, findings>>

\* main, line 332: if (!content || content.trim() === '') allowAndExit()
\* (content.trim of a number throws)
SecretsBlank ==
    /\ pc = "blank"
    /\ hook = "secrets-blocker"
    /\ IF content.t # "string"
       THEN pc' = "catch" /\ UNCHANGED <<exitCodes, stdout, stderr>>
       ELSE IF content.v = <<>> \/ Trim(content.v) = <<>>
       THEN Apply(allowAndExit, "scan")
       ELSE Apply(Continue, "scan")
    /\ UNCHANGED beyondHook
    /\ UNCHANGED <<hook, failClosed, stdin, document, event, command,
                   currentBranch, pushTarget, filePath, content, findings>>

\* the decision of main with `findings.length > 1`
SecretsScanOffByOne ==
    /\ pc = "scan"
    /\ hook = "secrets-blocker"
    /\ findings' = detectSecrets(content.v)
    /\ IF Len(findings') > 1
       THEN Apply(blockAndExit(SecretsMessage(filePath.v, findings')), "exited")
       ELSE Apply(allowAndExit, "exited")
    /\ UNCHANGED beyondHook
    /\ UNCHANGED <<hook, failClosed, stdin, document, event, command,
                   currentBranch, pushTarget, filePath, content>>

\* main, lines 334-349: detect, then block with the report or allow
SecretsScan ==
    /\ pc = "scan"
    /\ hook = "secrets-blocker"
    /\ findings' = detectSecrets(content.v)
    /\ IF Len(findings') > 0
       THEN Apply(blockAndExit(SecretsMessage(filePath.v, findings')), "exited")
       ELSE Apply(allowAndExit, "exited")
    /\ UNCHANGED beyondHook
    /\ UNCHANGED <<hook, failClosed, stdin, document, event, command,
                   currentBranch, pushTarget, filePath, content>>

-----------------------------------------------------------------------------
(* pii-blocker.js                                                          *)

\* Files/paths to skip checking
SKIP_PATTERNS == SKIP_PATTERNS_BASE

Dash      == {"-"}
DashSpace == {"-"} \cup Space                      \* [-\s]
DotDash   == {"-", "."} \cup Space                 \* [-.\s]
Slash     == {"/", "-"}                            \* [\/\-]
Letters   == UpperSet \cup LowerSet
Domains   == Alt(<< <<Lit(<<"c","o","m">>)>>, <<Lit(<<"o","r","g">>)>>, <<Lit(<<"n","e","t">>)>> >>)

\* /<a>-?<b>-?<c>-?<d>/
CardParts(a, b, c, d) ==
    Regex(<<Lit(a), Rep(Dash, 0, 1), Lit(b), Rep(Dash, 0, 1), Lit(c),
            Rep(Dash, 0, 1), Lit(d)>>, FALSE)

\* Patterns that indicate test/example data (allow these)
PII_ALLOWLIST_PATTERNS == <<
    Regex(<<Lit(<<"@","e","x","a","m","p","l","e",".">>), Domains, Eos>>, TRUE),
    Regex(<<Lit(<<"@","t","e","s","t",".">>), Domains, Eos>>, TRUE),
    Regex(<<Alt(<< <<Lit(<<"j","o","h","n",".","d","o","e">>)>>, <<Lit(<<"j","a","n","e",".","d","o","e">>)>>,
                   <<Lit(<<"t","e","s","t",".","u","s","e","r">>)>> >>)>>, TRUE),
    Regex(<<Lit(<<"5","5","5","-">>), Rep(Digits, 4, 4)>>, FALSE),
    Regex(<<Lit(<<"1","2","3","-","4","5","-","6","7","8","9">>)>>, FALSE),
    CardParts(<<"4","1","1","1">>, <<"1","1","1","1">>, <<"1","1","1","1">>, <<"1","1","1","1">>),
    CardParts(<<"4","2","4","2">>, <<"4","2","4","2">>, <<"4","2","4","2">>, <<"4","2","4","2">>),
    CardParts(<<"0","0","0","0">>, <<"0","0","0","0">>, <<"0","0","0","0">>, <<"0","0","0","0">>) >>

\* (?:25[0-5]|2[0-4][0-9]|[01]?[0-9][0-9]?)
Octet ==
    Alt(<< <<Lit(<<"2","5">>), One({"0","1","2","3","4","5"})>>,
           <<Lit(<<"2">>), One({"0","1","2","3","4"}), One(Digits)>>,
           <<Rep({"0", "1"}, 0, 1), One(Digits), Rep(Digits, 0, 1)>> >>)

\* 4[0-9]{3}|5[1-5][0-9]{2}|3[47][0-9]{2}|6(?:011|5[0-9]{2}), each followed
\* by `more` further digits
CardPrefix(more) ==
    Alt(<< <<Lit(<<"4">>), Rep(Digits, 3 + more, 3 + more)>>,
           <<Lit(<<"5">>), One({"1","2","3","4","5"}), Rep(Digits, 2 + more, 2 + more)>>,
           <<Lit(<<"3">>), One({"4", "7"}), Rep(Digits, 2 + more, 2 + more)>>,
           <<Lit(<<"6">>), Alt(<< <<Lit(<<"0","1","1">>)>>, <<Lit(<<"5">>), Rep(Digits, 2, 2)>> >>),
             Rep(Digits, more, more)>> >>)

\* PII detection patterns
PII_PATTERNS == <<
    \* /\b\d{3}-\d{2}-\d{4}\b/g
    Rule(<<"S","o","c","i","a","l"," ","S","e","c","u","r","i","t","y"," ","N","u","m","b","e","r">>,
         Regex(<<WordB, Rep(Digits, 3, 3), Lit(<<"-">>), Rep(Digits, 2, 2), Lit(<<"-">>),
                 Rep(Digits, 4, 4), WordB>>, FALSE),
         <<>>, "none", "Format: XXX-XX-XXXX"),
    \* /\b(?<!\d)\d{9}(?!\d)\b/g
    Rule(<<"S","o","c","i","a","l"," ","S","e","c","u","r","i","t","y"," ","N","u","m","b","e","r"," ","(","n","o"," ","d","a","s","h","e","s",")">>,
         Regex(<<WordB, NotBehind(Digits), Rep(Digits, 9, 9),
                 NotAhead(<< <<One(Digits)>> >>), WordB>>, FALSE),
         <<>>, "ssn", "Format: XXXXXXXXX"),
    \* /\b(?:4[0-9]{12}(?:[0-9]{3})?|5[1-5][0-9]{14}|3[47][0-9]{13}|
    \*   6(?:011|5[0-9]{2})[0-9]{12})\b/g
    Rule(<<"C","r","e","d","i","t"," ","C","a","r","d"," ","N","u","m","b","e","r">>,
         Regex(<<WordB,
                 Alt(<< <<Lit(<<"4">>), Rep(Digits, 12, 12), Opt(<<Rep(Digits, 3, 3)>>)>>,
                        <<Lit(<<"5">>), One({"1","2","3","4","5"}), Rep(Digits, 14, 14)>>,
                        <<Lit(<<"3">>), One({"4", "7"}), Rep(Digits, 13, 13)>>,
                        <<Lit(<<"6">>),
                          Alt(<< <<Lit(<<"0","1","1">>)>>, <<Lit(<<"5">>), Rep(Digits, 2, 2)>> >>),
                          Rep(Digits, 12, 12)>> >>),
                 WordB>>, FALSE),
         <<>>, "none", "Visa, MasterCard, Amex, or Discover"),
    \* /\b(?:4[0-9]{3}|5[1-5][0-9]{2}|3[47][0-9]{2}|6(?:011|5[0-9]{2}))
    \*   [-\s]?[0-9]{4}[-\s]?[0-9]{4}[-\s]?[0-9]{4}\b/g
    Rule(<<"C","r","e","d","i","t"," ","C","a","r","d"," ","N","u","m","b","e","r"," ","(","w","i","t","h"," ","s","e","p","a","r","a","t","o","r","s",")">>,
         Regex(<<WordB, CardPrefix(0), Rep(DashSpace, 0, 1), Rep(Digits, 4, 4),
                 Rep(DashSpace, 0, 1), Rep(Digits, 4, 4), Rep(DashSpace, 0, 1),
                 Rep(Digits, 4, 4), WordB>>, FALSE),
         <<>>, "none", "Card number with dashes or spaces"),
    \* /\b(?:\+1[-.\s]?)?\(?\d{3}\)?[-.\s]?\d{3}[-.\s]?\d{4}\b/g
    Rule(<<"U","S"," ","P","h","o","n","e"," ","N","u","m","b","e","r">>,
         Regex(<<WordB, Opt(<<Lit(<<"+","1">>), Rep(DotDash, 0, 1)>>), Rep({"("}, 0, 1),
                 Rep(Digits, 3, 3), Rep({")"}, 0, 1), Rep(DotDash, 0, 1),
                 Rep(Digits, 3, 3), Rep(DotDash, 0, 1), Rep(Digits, 4, 4), WordB>>,
               FALSE),
         <<>>, "none", "Format: (XXX) XXX-XXXX or variants"),
    \* /\b[a-zA-Z][a-zA-Z0-9._%+-]*[a-zA-Z0-9]@(?!example\.|test\.|localhost)
    \*   [a-zA-Z0-9.-]+\.[a-zA-Z]{2,}\b/gi
    Rule(<<"E","m","a","i","l"," ","A","d","d","r","e","s","s"," ","(","p","o","t","e","n","t","i","a","l"," ","P","I","I",")">>,
         Regex(<<WordB, One(Letters), Many(Alnum \cup {".", "_", "%", "+", "-"}, 0),
                 One(Alnum), Lit(At),
                 NotAhead(<< <<Lit(<<"e","x","a","m","p","l","e",".">>)>>, <<Lit(<<"t","e","s","t",".">>)>>,
                             <<Lit(<<"l","o","c","a","l","h","o","s","t">>)>> >>),
                 Many(Alnum \cup {".", "-"}, 1), Lit(<<".">>), Many(Letters, 2), WordB>>,
               TRUE),
         <<>>, "none", "Real-looking email address"),
    \* /\b(?!127\.0\.0\.1|0\.0\.0\.0|localhost)(?:(?:25[0-5]|2[0-4][0-9]|
    \*   [01]?[0-9][0-9]?)\.){3}(?:25[0-5]|2[0-4][0-9]|[01]?[0-9][0-9]?)\b/g
    Rule(<<"I","P"," ","A","d","d","r","e","s","s"," ","(","n","o","n","-","l","o","c","a","l",")">>,
         Regex(<<WordB,
                 NotAhead(<< <<Lit(<<"1","2","7",".","0",".","0",".","1">>)>>, <<Lit(<<"0",".","0",".","0",".","0">>)>>,
                             <<Lit(<<"l","o","c","a","l","h","o","s","t">>)>> >>),
                 Octet, Lit(<<".">>), Octet, Lit(<<".">>), Octet, Lit(<<".">>), Octet,
                 WordB>>, FALSE),
         <<>>, "none", "Non-localhost IP address"),
    \* /\b(?:dob|date.?of.?birth|birth.?date)\s*[:=]\s*\d{1,2}[\/\-]\d{1,2}
    \*   [\/\-]\d{2,4}\b/gi
    Rule(<<"D","a","t","e"," ","o","f"," ","B","i","r","t","h"," ","P","a","t","t","e","r","n">>,
         Regex(<<WordB,
                 Alt(<< <<Lit(<<"d","o","b">>)>>,
                        <<Lit(<<"d","a","t","e">>), RepNot(Newline, 0, 1), Lit(<<"o","f">>),
                          RepNot(Newline, 0, 1), Lit(<<"b","i","r","t","h">>)>>,
                        <<Lit(<<"b","i","r","t","h">>), RepNot(Newline, 0, 1), Lit(<<"d","a","t","e">>)>> >>),
                 Many(Space, 0), One(Assign), Many(Space, 0), Rep(Digits, 1, 2),
                 One(Slash), Rep(Digits, 1, 2), One(Slash), Rep(Digits, 2, 4), WordB>>,
               TRUE),
         <<>>, "none", "Date of birth field") >>

\* shouldSkipFile(filePath) of pii-blocker.js
PiiShouldSkipFile(path) == shouldSkipFile(path, <<>>)

\* isAllowlisted(content) of pii-blocker.js
PiiIsAllowlisted(text) == isAllowlisted(text, PII_ALLOWLIST_PATTERNS)

\* the validator of 'Social Security Number (no dashes)'
SsnValidator(match) ==
    LET firstThree == SubSeq(match, 1, IF Len(match) < 3 THEN Len(match) ELSE 3)
    IN  firstThree # <<"0","0","0">> /\ firstThree # <<"6","6","6">>

\* the masking of detectPII
MaskPII(match) ==
    IF Len(match) > 6
    THEN SubSeq(match, 1, 3) \o Stars(Len(match) - 6)
             \o SubSeq(match, Len(match) - 2, Len(match))
    ELSE <<"*","*","*">>

\* the body of the inner loop of detectPII for one match m of a rule
PiiFinding(rule, m) ==
    IF PiiIsAllowlisted(m.text) THEN <<>>
    ELSE IF rule.validator = "ssn" /\ ~SsnValidator(m.text) THEN <<>>
    ELSE <<[type |-> rule.name, masked |-> MaskPII(m.text),
            description |-> rule.description]>>

\* the findings of the matches ms[i..] of one rule
RECURSIVE PiiRuleFindings(_, _, _)
PiiRuleFindings(rule, ms, i) ==
    IF i > Len(ms) THEN <<>>
    ELSE PiiFinding(rule, ms[i]) \o PiiRuleFindings(rule, ms, i + 1)

\* the findings of the rules rules[k..], in order
RECURSIVE PiiScanRules(_, _, _)
PiiScanRules(rules, text, k) ==
    IF k > Len(rules) THEN <<>>
    ELSE PiiRuleFindings(rules[k], MatchAll(rules[k].pattern, text, 1), 1)
             \o PiiScanRules(rules, text, k + 1)

\* detectPII(content)
detectPII(text) == Dedup(PiiScanRules(PII_PATTERNS, text, 1), 1, {})

\* the loop of detectPII over rules[k..] with the scan position of every
\* pattern explicit: content.match(pii.pattern) with a global pattern sets
\* lastIndex to 0, collects every match and leaves lastIndex at 0
RECURSIVE PiiScanRulesAt(_, _, _, _)
PiiScanRulesAt(rules, text, k, li) ==
    IF k > Len(rules) THEN <<>>
    ELSE PiiRuleFindings(rules[k],
                         MatchAll(rules[k].pattern, text, li[k] + 1), 1)
             \o PiiScanRulesAt(rules, text, k + 1, li)

\* one call of detectPII(content) in a process that may have called it before
DetectPii ==
    /\ pc = "detect"
    /\ hook = "pii-blocker"
    /\ Len(calls) < MaxCalls
    /\ lastIndex' = [k \in DOMAIN lastIndex |-> 0]
    /\ calls' = Append(calls, Dedup(
                     PiiScanRulesAt(PII_PATTERNS, content.v, 1, lastIndex'),
                     1, {}))
    /\ UNCHANGED <<hookVars, notifyVars, runnerVars>>

\* the report of main
PiiMessage(path, fs) ==
    <<Tmpl("Blocked: Potential PII detected in "), Value("filePath", path),
      Tmpl("\n\nFindings:\n"),
      Value("findingsList", formatFindings(fs, DefaultLimit).list),
      Value("more", formatFindings(fs, DefaultLimit).more),
      Tmpl("\n\nIf this is test/example data, use:\n- @example.com for emails\n- 555-xxxx for phone numbers\n- 123-45-6789 for SSNs\n- 4242424242424242 for credit cards")>>

\* main, lines 180-187: read all of stdin, then JSON.parse(input) with no
\* try around it: empty and unparsable input throw
PiiRead ==
    /\ pc = "readStdin"
    /\ hook = "pii-blocker"
    /\ IF JsonParses(stdin)
       THEN event' = document /\ pc' = "main"
       ELSE event' = event /\ pc' = "catch"
    /\ UNCHANGED beyondHook
    /\ UNCHANGED <<hook, failClosed, stdin, document, exitCodes, stdout, stderr,
                   command, currentBranch, pushTarget, filePath, content,
                   findings>>

\* main, lines 189-190: filePath and content of the event (a null event
\* makes the property access throw)
PiiParse ==
    /\ pc = "main"
    /\ hook = "pii-blocker"
    /\ IF event.t = "null"
       THEN pc' = "catch" /\ UNCHANGED <<filePath, content>>
       ELSE /\ filePath' = parseHookEvent(event).filePath
            /\ content' = parseHookEvent(event).content
            /\ pc' = "skip"
    /\ UNCHANGED beyondHook
    /\ UNCHANGED <<hook, failClosed, stdin, document, event, exitCodes, stdout,
                   stderr, command, currentBranch, pushTarget, findings>>

\* the allow of pii-blocker.js: process.stdout.write('{}'); process.exit(0)
PiiAllow == Outcome(<<"{}">>, <<>>, <<0>>)

\* main, lines 193-197: skip certain files
PiiSkip ==
    /\ pc = "skip"
    /\ hook = "pii-blocker"
    /\ IF filePath.t # "string"
       THEN pc' = "catch" /\ UNCHANGED <<exitCodes, stdout, stderr>>
       ELSE IF PiiShouldSkipFile(filePath.v)
       THEN Apply(PiiAllow, "blank")
       ELSE Apply(Continue, "blank")
    /\ UNCHANGED beyondHook
    /\ UNCHANGED <<hook, failClosed, stdin, document, event, command,
                   currentBranch, pushTarget, filePath, content, findings>>

\* main, lines 200-204: skip empty content
PiiBlank ==
    /\ pc = "blank"
    /\ hook = "pii-blocker"
    /\ IF content.t # "string"
       THEN pc' = "catch" /\ UNCHANGED <<exitCodes, stdout, stderr>>
       ELSE IF content.v = <<>> \/ Trim(content.v) = <<>>
       THEN Apply(PiiAllow, "scan")
       ELSE Apply(Continue, "scan")
    /\ UNCHANGED beyondHook
    /\ UNCHANGED <<hook, failClosed, stdin, document, event, command,
                   currentBranch, pushTarget, filePath, content, findings>>

\* main, lines 207-229: detect, then block with the report or allow
PiiScan ==
    /\ pc = "scan"
    /\ hook = "pii-blocker"
    /\ findings' = detectPII(content.v)
    /\ IF Len(findings') > 0
       THEN Apply(Outcome(<<>>, <<PiiMessage(filePath.v, findings')>>, <<2>>),
                  "exited")
       ELSE Apply(PiiAllow, "exited")
    /\ UNCHANGED beyondHook
    /\ UNCHANGED <<hook, failClosed, stdin, document, event, command,
                   currentBranch, pushTarget, filePath, content>>

\* console.error(err): the exception itself, with its stack
ErrObject == [kind |-> "exception", text |-> "err", chars |-> <<>>]

\* main().catch(err => { console.error(err); process.exit(1); })
PiiCatch ==
    /\ pc = "catch"
    /\ hook = "pii-blocker"
    /\ Apply(Outcome(<<>>, <<<<ErrObject>>>>, <<1>>), "exited")
    /\ UNCHANGED beyondHook
    /\ UNCHANGED <<hook, failClosed, stdin, document, event, command,
                   currentBranch, pushTarget, filePath, content, findings>>

-----------------------------------------------------------------------------
(* file-size-check.js                                                      *)

MAX_FILE_SIZE_KB == 100    \* Warn if file content exceeds this
BLOCK_SIZE_KB == 500       \* Block if file exceeds this

\* Files that are expected to be large (don't warn)
LARGE_FILE_EXCEPTIONS == <<
    Regex(<<Lit(<<"p","a","c","k","a","g","e","-","l","o","c","k",".","j","s","o","n">>), Eos>>, FALSE),
    Regex(<<Lit(<<"y","a","r","n",".","l","o","c","k">>), Eos>>, FALSE),
    Regex(<<Lit(<<"c","o","m","p","o","s","e","r",".","l","o","c","k">>), Eos>>, FALSE),
    Regex(<<Lit(<<".","m","i","n",".","j","s">>), Eos>>, FALSE),
    Regex(<<Lit(<<".","m","i","n",".","c","s","s">>), Eos>>, FALSE),
    Regex(<<Lit(<<"v","e","n","d","o","r","/">>)>>, FALSE),
    Regex(<<Lit(<<"n","o","d","e","_","m","o","d","u","l","e","s","/">>)>>, FALSE) >>

\* the messages of a blocked file, lines 65-71
FileSizeBlockMessages ==
    << <<Tmpl("BLOCKED: File too large ("), Value("sizeKB", <<>>), Tmpl("KB)")>>,
       <<Tmpl("Maximum allowed: 500KB")>>,
       <<Tmpl("File: "), Value("filePath", <<>>)>>,
       <<Tmpl("\nConsider:")>>,
       <<Tmpl("- Splitting into multiple files")>>,
       <<Tmpl("- Moving to external storage")>>,
       <<Tmpl("- Adding to .gitignore if temporary")>> >>

\* the messages of a large file, lines 82-84
FileSizeWarnMessages ==
    << <<Tmpl("\nWARNING: Large file ("), Value("sizeKB", <<>>), Tmpl("KB)")>>,
       <<Tmpl("File: "), Value("filePath", <<>>)>>,
       <<Tmpl("Consider if this file needs to be this large.\n")>> >>

\* the handler of the end of stdin, lines 40-90, as the outcome it has for
\* the input lines and their JSON document
FileSizeOutcome(lines, doc) ==
    LET path == Prop(doc, "file_path")
        text == Prop(doc, "content")
        quiet == Outcome(<<>>, <<>>, <<0>>)
    IN  IF ~JsonParses(lines) THEN quiet                 \* catch (e)
        ELSE IF doc.t = "null" THEN quiet                \* catch (e)
        ELSE IF ~Truthy(path) \/ ~Truthy(text) THEN quiet
        ELSE IF isAllowlisted(path.v, LARGE_FILE_EXCEPTIONS) THEN quiet
        ELSE IF text.t # "string" THEN quiet             \* catch (e)
        ELSE IF text.bytes > BLOCK_SIZE_KB * 1024
        THEN Outcome(<<"{\"decision\":\"block\",\"reason\":\"File exceeds 500KB limit\"}">>,
                     FileSizeBlockMessages, <<1>>)
        ELSE IF text.bytes > MAX_FILE_SIZE_KB * 1024
        THEN Outcome(<<>>, FileSizeWarnMessages, <<0>>)
        ELSE quiet

\* process.stdin.on('end', ...)
FileSizeEnd ==
    /\ pc = "readStdin"
    /\ hook = "file-size-check"
    /\ Apply(FileSizeOutcome(stdin, document), "exited")
    /\ UNCHANGED beyondHook
    /\ UNCHANGED <<hook, failClosed, stdin, document, event, command,
                   currentBranch, pushTarget, filePath, content, findings>>

\* main().catch(err => { console.error(`<hook> error: ${err.message}`);
\*                       process.exit(2); })
Catch ==
    /\ pc = "catch"
    /\ hook \in {"branch-protection", "secrets-blocker"}
    /\ Apply(Outcome(<<>>, <<CatchMessage(hook)>>, <<2>>), "exited")
    /\ UNCHANGED beyondHook
    /\ UNCHANGED <<hook, failClosed, stdin, document, event, command,
                   currentBranch, pushTarget, filePath, content, findings>>

-----------------------------------------------------------------------------
(* skills/autopilot/scripts/run_tasks.sh.  A run is one process of the     *)
(* script; its process id is its name.  Every step is one command, or one  *)
(* run of commands that touch nothing another process can see.             *)

\* PROTECTED_BRANCHES
AutopilotProtected == {"main", "master", "production"}

\* kill -0 pid: a run that has not exited, or a process that is no run
AlivePid(p) ==
    \/ p = "other"
    \/ p \in DOMAIN runner /\ runner[p] # "exited"

\* the run moves to position next
Goto(r, next) == runner' = [runner EXCEPT ![r] = next]

\* the EXIT trap: cleanup, if the run has installed it, removes the PID file
Exit(r) ==
    /\ Goto(r, "exited")
    /\ pidFile' = IF trap[r] THEN None ELSE pidFile

\* Branch protection: exit 1 on a protected branch
BranchCheck(r) ==
    /\ runner[r] = "branch"
    /\ IF config.CURRENT_BRANCH \in AutopilotProtected
       THEN Exit(r)
       ELSE Goto(r, "lockTest") /\ UNCHANGED pidFile
    /\ UNCHANGED <<existingPid, trap, config, ITERATION, FAILURES, remaining,
                   changed, pauseFile, sessions>>
    /\ UNCHANGED <<hookVars, detectorVars, notifyVars>>

\* if [ -f "$PID_FILE" ]
LockTest(r) ==
    /\ runner[r] = "lockTest"
    /\ Goto(r, IF pidFile # None THEN "lockRead" ELSE "lockWrite")
    /\ UNCHANGED <<pidFile, existingPid, trap, config, ITERATION, FAILURES,
                   remaining, changed, pauseFile, sessions>>
    /\ UNCHANGED <<hookVars, detectorVars, notifyVars>>

\* EXISTING_PID=$(cat "$PID_FILE" 2>/dev/null || echo "")
LockRead(r) ==
    /\ runner[r] = "lockRead"
    /\ existingPid' = [existingPid EXCEPT
                          ![r] = IF pidFile # None THEN pidFile[1] ELSE ""]
    /\ Goto(r, "lockProbe")
    /\ UNCHANGED <<pidFile, trap, config, ITERATION, FAILURES, remaining,
                   changed, pauseFile, sessions>>
    /\ UNCHANGED <<hookVars, detectorVars, notifyVars>>

\* [ -n "$EXISTING_PID" ] && kill -0 "$EXISTING_PID": exit 1 on a live run
LockProbe(r) ==
    /\ runner[r] = "lockProbe"
    /\ IF existingPid[r] # "" /\ AlivePid(existingPid[r])
       THEN Exit(r)
       ELSE Goto(r, "lockStale") /\ UNCHANGED pidFile
    /\ UNCHANGED <<existingPid, trap, config, ITERATION, FAILURES, remaining,
                   changed, pauseFile, sessions>>
    /\ UNCHANGED <<hookVars, detectorVars, notifyVars>>

\* rm -f "$PID_FILE"
LockStale(r) ==
    /\ runner[r] = "lockStale"
    /\ pidFile' = None
    /\ Goto(r, "lockWrite")
    /\ UNCHANGED <<existingPid, trap, config, ITERATION, FAILURES, remaining,
                   changed, pauseFile, sessions>>
    /\ UNCHANGED <<hookVars, detectorVars, notifyVars>>

\* echo $$ > "$PID_FILE"
LockWrite(r) ==
    /\ runner[r] = "lockWrite"
    /\ pidFile' = Some(r)
    /\ Goto(r, "trap")
    /\ UNCHANGED <<existingPid, trap, config, ITERATION, FAILURES, remaining,
                   changed, pauseFile, sessions>>
    /\ UNCHANGED <<hookVars, detectorVars, notifyVars>>

\* trap cleanup EXIT
TrapSet(r) ==
    /\ runner[r] = "trap"
    /\ trap' = [trap EXCEPT ![r] = TRUE]
    /\ Goto(r, "preflight")
    /\ UNCHANGED <<pidFile, existingPid, config, ITERATION, FAILURES,
                   remaining, changed, pauseFile, sessions>>
    /\ UNCHANGED <<hookVars, detectorVars, notifyVars>>

\* Preflight: exit 1 without the claude CLI or without TASKS.md; then
\* ITERATION=0, FAILURES=0
Preflight(r) ==
    /\ runner[r] = "preflight"
    /\ \E found \in BOOLEAN :
          IF found
          THEN /\ Goto(r, "loop")
               /\ ITERATION' = [ITERATION EXCEPT ![r] = 0]
               /\ FAILURES' = [FAILURES EXCEPT ![r] = 0]
               /\ UNCHANGED pidFile
          ELSE Exit(r) /\ UNCHANGED <<ITERATION, FAILURES>>
    /\ UNCHANGED <<existingPid, trap, config, remaining, changed, pauseFile,
                   sessions>>
    /\ UNCHANGED <<hookVars, detectorVars, notifyVars>>

\* the loop test with -le for the iterations
LoopTestOneMore(r) ==
    /\ runner[r] = "loop"
    /\ IF remaining > 0 /\ ITERATION[r] <= config.MAX_ITERATIONS
       THEN Goto(r, "pause") /\ UNCHANGED pidFile
       ELSE Exit(r)
    /\ UNCHANGED <<existingPid, trap, config, ITERATION, FAILURES, remaining,
                   changed, pauseFile, sessions>>
    /\ UNCHANGED <<hookVars, detectorVars, notifyVars>>

\* while [ "$(count_remaining)" -gt 0 ] && [ "$ITERATION" -lt
\* "$MAX_ITERATIONS" ]; past the loop the summary is logged and the script
\* ends
LoopTest(r) ==
    /\ runner[r] = "loop"
    /\ IF remaining > 0 /\ ITERATION[r] < config.MAX_ITERATIONS
       THEN Goto(r, "pause") /\ UNCHANGED pidFile
       ELSE Exit(r)
    /\ UNCHANGED <<existingPid, trap, config, ITERATION, FAILURES, remaining,
                   changed, pauseFile, sessions>>
    /\ UNCHANGED <<hookVars, detectorVars, notifyVars>>

\* the pause check left out
PauseTestSkipped(r) ==
    /\ runner[r] = "pause"
    /\ Goto(r, "begin")
    /\ UNCHANGED <<pidFile, existingPid, trap, config, ITERATION, FAILURES,
                   remaining, changed, pauseFile, sessions>>
    /\ UNCHANGED <<hookVars, detectorVars, notifyVars>>

\* if [ -f "$PAUSE_FILE" ]; then ... sleep 10; continue
PauseTest(r) ==
    /\ runner[r] = "pause"
    /\ Goto(r, IF pauseFile THEN "loop" ELSE "begin")
    /\ UNCHANGED <<pidFile, existingPid, trap, config, ITERATION, FAILURES,
                   remaining, changed, pauseFile, sessions>>
    /\ UNCHANGED <<hookVars, detectorVars, notifyVars>>

\* ITERATION=$((ITERATION + 1)), the checkpoint tag, and the start of
\* timeout "$SESSION_TIMEOUT" claude -p "$PROMPT"
SessionBegin(r) ==
    /\ runner[r] = "begin"
    /\ ITERATION' = [ITERATION EXCEPT ![r] = @ + 1]
    /\ sessions' = Append(sessions, [run |-> r, result |-> "running"])
    /\ Goto(r, "session")
    /\ UNCHANGED <<pidFile, existingPid, trap, config, FAILURES, remaining,
                   changed, pauseFile>>
    /\ UNCHANGED <<hookVars, detectorVars, notifyVars>>

\* tasks a project holds at most, and files a session changes at most
MaxTasks == 2
MaxChanged == 2

\* the session of the run: the last entry of sessions the run has started
SessionOf(r) ==
    MaxOf({i \in DOMAIN sessions : sessions[i].run = r})

\* the session ends: completed (exit 0), failed, or timed out (exit 124).
\* It has checked off a task or not and left some files changed.  On
\* success FAILURES=0; otherwise FAILURES is counted up and the loop is
\* left at MAX_RETRIES
SessionEnd(r) ==
    /\ runner[r] = "session"
    /\ \E result \in {"completed", "failed", "timed out"} :
          /\ sessions' = [sessions EXCEPT ![SessionOf(r)].result = result]
          /\ IF result = "completed"
             THEN /\ FAILURES' = [FAILURES EXCEPT ![r] = 0]
                  /\ Goto(r, "changed")
                  /\ UNCHANGED pidFile
             ELSE /\ FAILURES' = [FAILURES EXCEPT ![r] = @ + 1]
                  /\ IF FAILURES'[r] >= config.MAX_RETRIES
                     THEN Exit(r)
                     ELSE Goto(r, "cooldown") /\ UNCHANGED pidFile
    /\ remaining' \in {n \in {remaining, remaining - 1} : n >= 0}
    /\ changed' \in 0..MaxChanged
    /\ UNCHANGED <<existingPid, trap, config, ITERATION, pauseFile>>
    /\ UNCHANGED <<hookVars, detectorVars, notifyVars>>

\* check_changed_files || true
CheckChangedFiles(r) ==
    /\ runner[r] = "changed"
    /\ pauseFile' = (pauseFile \/ changed > config.MAX_CHANGED_FILES)
    /\ Goto(r, "cooldown")
    /\ UNCHANGED <<pidFile, existingPid, trap, config, ITERATION, FAILURES,
                   remaining, changed, sessions>>
    /\ UNCHANGED <<hookVars, detectorVars, notifyVars>>

\* the log rotation and sleep "$COOLDOWN"
Cooldown(r) ==
    /\ runner[r] = "cooldown"
    /\ Goto(r, "loop")
    /\ UNCHANGED <<pidFile, existingPid, trap, config, ITERATION, FAILURES,
                   remaining, changed, pauseFile, sessions>>
    /\ UNCHANGED <<hookVars, detectorVars, notifyVars>>

\* the user: touch .autopilot-pause
UserPause ==
    /\ ~pauseFile
    /\ \E r \in DOMAIN runner : runner[r] # "exited"
    /\ pauseFile' = TRUE
    /\ UNCHANGED <<runner, pidFile, existingPid, trap, config, ITERATION,
                   FAILURES, remaining, changed, sessions>>
    /\ UNCHANGED <<hookVars, detectorVars, notifyVars>>

\* the user: rm .autopilot-pause
UserResume ==
    /\ pauseFile
    /\ pauseFile' = FALSE
    /\ UNCHANGED <<runner, pidFile, existingPid, trap, config, ITERATION,
                   FAILURES, remaining, changed, sessions>>
    /\ UNCHANGED <<hookVars, detectorVars, notifyVars>>

-----------------------------------------------------------------------------
(* agent-notify.js.  One process handles one PostToolUse event of the Task *)
(* tool; the history file outlives the process.  The desktop notification  *)
(* is sent inside a try block and touches nothing of this model.           *)

\* the group of the first match of /<label>\s*(<class>+)/ in s, or None
LabelledGroup(label, class, s) ==
    LET re == Regex(<<Lit(label), Many(Space, 0), Many(class, 1)>>, FALSE)
        Group(i, e) ==
            Some(SubSeq(s, i + Len(label) + SpaceRun(s, i + Len(label)), e - 1))
        Start(i) == IF i = 0 THEN None ELSE Group(i, MatchEnd(re, s, i))
    IN  Start(Search(re, s, 1))

\* parseInt of a run of digits, as decimal text: no leading zeros
RECURSIVE ParseInt(_)
ParseInt(digits) ==
    IF Len(digits) > 1 /\ digits[1] = "0" THEN ParseInt(Tail(digits))
    ELSE Num(digits)

\* match ? parseInt(match[1]) : null
NumberAfter(label, s) ==
    LET Of(group) == IF group = None THEN JNull ELSE ParseInt(group[1])
    IN  Of(LabelledGroup(label, Digits, s))

\* agentMatch ? agentMatch[1].substring(0, 7) : 'unknown'
AgentId(s) ==
    LET Of(group) ==
            IF group = None THEN <<"u","n","k","n","o","w","n">>
            ELSE SubSeq(group[1], 1, IF Len(group[1]) < 7 THEN Len(group[1]) ELSE 7)
    IN  Of(LabelledGroup(<<"a","g","e","n","t","I","d",":">>, WordSet, s))

\* tool_input?.description || 'Background agent'
Description(toolInput) ==
    IF toolInput.t = "string" /\ toolInput.v # <<>> THEN toolInput.v
    ELSE <<"B","a","c","k","g","r","o","u","n","d"," ","a","g","e","n","t">>

\* the entry handleTaskComplete passes to persistHistory; now is new Date()
HistoryEntry(hookData, now) ==
    [id          |-> AgentId(hookData.tool_result.v),
     description |-> Description(hookData.description),
     tokens      |-> NumberAfter(<<"t","o","t","a","l","_","t","o","k","e","n","s",":">>, hookData.tool_result.v),
     durationMs  |-> NumberAfter(<<"d","u","r","a","t","i","o","n","_","m","s",":">>, hookData.tool_result.v),
     completedAt |-> now]

\* Keep last 100 entries
HistoryCap == 100

\* persistHistory with history.slice(0, 100)
persistHistoryKeepsOldest(hist, entry) ==
    IF Len(hist) + 1 > HistoryCap
    THEN SubSeq(Append(hist, entry), 1, HistoryCap)
    ELSE Append(hist, entry)

\* persistHistory(entry): the array read from agent-history.json, the push,
\* the cut to the last 100, and the array written back
persistHistory(hist, entry) ==
    IF Len(hist) + 1 > HistoryCap
    THEN SubSeq(Append(hist, entry), Len(hist) + 2 - HistoryCap, Len(hist) + 1)
    ELSE Append(hist, entry)

\* handleTaskComplete(hookData) as a function of the history file: an
\* input that is not JSON, null, or has a tool_result without includes()
\* throws into the handler's catch; no result, a result without 'agentId:'
\* and a launch leave through process.exit(0) before persistHistory
handleTaskComplete(hookData, now, hist) ==
    IF hookData.kind # "object" THEN hist
    ELSE IF hookData.tool_result.t # "string" THEN hist
    ELSE IF hookData.tool_result.v = <<>>
              \/ ~Contains(hookData.tool_result.v, <<"a","g","e","n","t","I","d",":">>) THEN hist
    ELSE IF Contains(hookData.tool_result.v, <<"l","a","u","n","c","h","e","d"," ","s","u","c","c","e","s","s","f","u","l","l","y">>) THEN hist
    ELSE persistHistory(hist, HistoryEntry(hookData, now))

\* a parsed hook input: the description of tool_input and tool_result;
\* task is what the Task tool did ("launched" or "completed" an agent, or
\* "other"), which the hook does not see
HookData(task, description, result) ==
    [kind |-> "object", task |-> task, description |-> description,
     tool_result |-> result]

\* what the Task tool reports
Launched ==
    Str(<<"A","s","y","n","c"," ","a","g","e","n","t"," ","l","a","u","n","c","h","e","d"," ","s","u","c","c","e","s","s","f","u","l","l","y",".","\n","a","g","e","n","t","I","d",":"," ","a","1","b","2","c","3","d","4","e","5">>)
Completed ==
    Str(<<"T","e","s","t","s"," ","p","a","s","s",".","\n","a","g","e","n","t","I","d",":"," ","a","1","b","2","c","3","d","4","e","5","\n","t","o","t","a","l","_","t","o","k","e","n","s",":"," ","0","1","5","0","0","\n","d","u","r","a","t","i","o","n","_","m","s",":"," ","3","0","0","0">>)
CompletedBare == Str(<<"a","g","e","n","t","I","d",":","x","y","z">>)
CompletedUnnamed == Str(<<"a","g","e","n","t","I","d",":"," ","(","n","o","n","e",")","\n","t","o","t","a","l","_","t","o","k","e","n","s",":"," ","7">>)
CompletedServer ==
    Str(<<"D","e","v"," ","s","e","r","v","e","r"," ","l","a","u","n","c","h","e","d"," ","s","u","c","c","e","s","s","f","u","l","l","y",".","\n","a","g","e","n","t","I","d",":"," ","b","2","c","3","d","4","e","\n","t","o","t","a","l","_","t","o","k","e","n","s",":"," ","2","0">>)
NoAgent == Str(<<"A","l","l"," ","d","o","n","e">>)

\* the inputs of the hook: not JSON, null, and objects with and without
\* tool_input.description and tool_result
NotifyInputs ==
    {[kind |-> "invalid"], [kind |-> "null"],
     HookData("other", Undef, Undef), HookData("other", Undef, Num(<<"1","2">>)),
     HookData("other", Str(<<"R","u","n"," ","t","e","s","t","s">>), NoAgent),
     HookData("launched", Str(<<"R","u","n"," ","t","e","s","t","s">>), Launched),
     HookData("completed", Str(<<"R","u","n"," ","t","e","s","t","s">>), Completed),
     HookData("completed", Undef, CompletedBare),
     HookData("completed", Undef, CompletedUnnamed),
     HookData("completed", Str(<<"S","t","a","r","t"," ","s","e","r","v","e","r">>), CompletedServer)}

\* events handled in one behaviour
MaxEvents == 3

\* process.stdin.on('end'): one event is parsed and handled, and the
\* process exits with code 0 whatever happened
AgentNotify ==
    /\ clock < MaxEvents
    /\ hook = "agent-notify"
    /\ clock' = clock + 1
    /\ \E hookData \in NotifyInputs :
          /\ history' = handleTaskComplete(hookData, clock', history)
          /\ completions' = IF hookData.kind = "object"
                                  /\ hookData.task = "completed"
                            THEN Append(completions,
                                        [at |-> clock', event |-> hookData])
                            ELSE completions
    /\ UNCHANGED <<failClosed, stdin, document, pc, event, exitCodes, stdout,
                   stderr, command, currentBranch, pushTarget, filePath,
                   content, findings, hook>>
    /\ UNCHANGED <<detectorVars, runnerVars>>

-----------------------------------------------------------------------------
(* Requests                                                                *)

\* sequences over S of length at most n
RECURSIVE SeqsUpTo(_, _)
SeqsUpTo(S, n) ==
    IF n = 0 THEN {<<>>}
    ELSE LET shorter == SeqsUpTo(S, n - 1)
         IN  shorter \cup {Append(q, x) : q \in {r \in shorter : Len(r) = n - 1}, x \in S}

\* arguments tried after `git push`
MaxArgs == 2
PushArgs ==
    {<<"o","r","i","g","i","n">>, <<"m","a","i","n">>, <<"f","e","a","t","u","r","e","/","x">>, <<"H","E","A","D",":","m","a","s","t","e","r">>, <<"-","u">>, <<"-","-","f","o","r","c","e">>,
     <<"-","-","d","e","l","e","t","e">>, <<"-","o">>}

\* the push forms the guard documents, for a branch b
PushForms(b) ==
    {Join(<<<<"g","i","t">>, <<"p","u","s","h">>, <<"o","r","i","g","i","n">>, b>>),
     Join(<<<<"g","i","t">>, <<"p","u","s","h">>, <<"-","u">>, <<"o","r","i","g","i","n">>, b>>),
     Join(<<<<"g","i","t">>, <<"p","u","s","h">>, <<"o","r","i","g","i","n">>, <<"H","E","A","D",":">> \o b>>),
     Join(<<<<"g","i","t">>, <<"p","u","s","h">>, <<"o","r","i","g","i","n">>, <<"H","E","A","D",":","r","e","f","s","/","h","e","a","d","s","/">> \o b>>),
     Join(<<<<"g","i","t">>, <<"p","u","s","h">>, <<"o","r","i","g","i","n">>, <<"r","e","f","s","/","h","e","a","d","s","/">> \o b>>),
     Join(<<<<"g","i","t">>, <<"p","u","s","h">>, <<"-","-","f","o","r","c","e">>, <<"o","r","i","g","i","n">>, b>>),
     Join(<<<<"g","i","t">>, <<"p","u","s","h">>, <<"o","r","i","g","i","n">>, <<"+">> \o b>>)}

\* remote deletions of a branch b
DeleteForms(b) ==
    {Join(<<<<"g","i","t">>, <<"p","u","s","h">>, <<"o","r","i","g","i","n">>, <<"-","-","d","e","l","e","t","e">>, b>>),
     Join(<<<<"g","i","t">>, <<"p","u","s","h">>, <<"-","-","d","e","l","e","t","e">>, <<"o","r","i","g","i","n">>, b>>)}

PushTargets == {<<"m","a","i","n">>, <<"m","a","s","t","e","r">>, <<"p","r","o","d","u","c","t","i","o","n">>, <<"f","e","a","t","u","r","e","/","x">>}

\* other command lines: no push, other git commands, several refspecs,
\* several commands on one line
OtherCommands ==
    {<<"g","i","t"," ","s","t","a","t","u","s">>, <<"n","p","m"," ","t","e","s","t">>, <<"g","i","t"," ","c","o","m","m","i","t"," ","-","m"," ","w","i","p">>,
     <<"g","i","t"," ","r","e","s","e","t"," ","-","-","h","a","r","d"," ","H","E","A","D","~","1">>, <<"g","i","t"," ","c","l","e","a","n"," ","-","f","d">>, <<"g","i","t"," ","c","h","e","c","k","o","u","t"," ","-","-"," ",".">>,
     <<"g","i","t"," ","r","e","s","t","o","r","e"," ",".">>, <<"g","i","t"," ","b","r","a","n","c","h"," ","-","D"," ","o","l","d">>,
     <<"g","i","t"," ","p","u","s","h"," ","-","-","f","o","r","c","e","-","w","i","t","h","-","l","e","a","s","e"," ","o","r","i","g","i","n"," ","f","e","a","t","u","r","e","/","x">>,
     <<"g","i","t"," ","p","u","s","h"," ","o","r","i","g","i","n"," ","f","e","a","t","u","r","e","/","x"," ","-","f">>,
     <<"g","i","t"," ","p","u","s","h"," ","o","r","i","g","i","n"," ","f","e","a","t","u","r","e","/","x"," ","m","a","i","n">>,
     <<"g","i","t"," ","p","u","s","h"," ","o","r","i","g","i","n"," ","f","e","a","t","u","r","e","/","x"," ","&","&"," ","g","i","t"," ","p","u","s","h"," ","o","r","i","g","i","n"," ","m","a","i","n">>,
     <<"g","i","t"," ","p","u","s","h"," ","o","r","i","g","i","n"," ","m","a","i","n"," ","&","&"," ","n","p","m"," ","t","e","s","t">>,
     <<"n","p","m"," ","t","e","s","t"," ","&","&"," ","g","i","t"," ","p","u","s","h"," ","o","r","i","g","i","n"," ","m","a","i","n">>,
     <<"n","p","m"," ","t","e","s","t",";"," ","g","i","t"," ","p","u","s","h"," ","o","r","i","g","i","n"," ","m","a","i","n">>,
     <<"g","i","t"," ","p","u","s","h"," ","o","r","i","g","i","n"," ","m","a","i","n",";"," ","n","p","m"," ","t","e","s","t">>,
     <<"G","I","T"," "," ","P","U","S","H","\t","o","r","i","g","i","n"," ","m","a","s","t","e","r">>,
     <<"g","i","t"," ","p","u","s","h"," ","-","-","d","e","l","e","t","e"," ","m","a","i","n">>,
     <<"g","i","t"," ","p","u","s","h"," ","o","r","i","g","i","n","\n","m","a","i","n">>}

Commands ==
    {Join(<<<<"g","i","t">>, <<"p","u","s","h">>>> \o a) : a \in SeqsUpTo(PushArgs, MaxArgs)}
        \cup UNION {PushForms(b) \cup DeleteForms(b) : b \in PushTargets}
        \cup OtherCommands

\* the events of a Bash tool call, well-formed and not
BranchDocuments ==
    {Event(ToolInput(Undef, Undef, Undef, Str(c))) : c \in Commands}
        \cup {NullEvent, Event(NoToolInput),
              Event(ToolInput(Undef, Undef, Undef, Undef)),
              Event(ToolInput(Undef, Undef, Undef, Num(<<"1","2">>)))}

\* the rule table a hook script loads
LoadedRules(h) ==
    IF h = "secrets-blocker" THEN SECRET_PATTERNS
    ELSE IF h = "pii-blocker" THEN PII_PATTERNS
    ELSE <<>>

\* a process that has called no detector yet: every pattern literal starts
\* with lastIndex 0
NoCalls ==
    /\ lastIndex = [k \in DOMAIN LoadedRules(hook) |-> 0]
    /\ calls = <<>>

\* no agent has completed yet
NoHistory ==
    /\ history = <<>>
    /\ completions = <<>>
    /\ clock = 0

\* no autopilot run has been started
NoRunner ==
    /\ runner = <<>>
    /\ pidFile = None
    /\ existingPid = <<>>
    /\ trap = <<>>
    /\ config = <<>>
    /\ ITERATION = 0
    /\ FAILURES = 0
    /\ remaining = 0
    /\ changed = 0
    /\ pauseFile = FALSE
    /\ sessions = <<>>

InitProcess ==
    /\ NoCalls
    /\ NoHistory
    /\ NoRunner
    /\ pc = "readStdin"
    /\ event = NoEvent
    /\ exitCodes = <<>>
    /\ stdout = <<>>
    /\ stderr = <<>>
    /\ command = Undef
    /\ currentBranch = None
    /\ pushTarget = None
    /\ filePath = Undef
    /\ content = Undef
    /\ findings = <<>>

\* the branch guard on every Bash event
InitBranch ==
    /\ hook = "branch-protection"
    /\ failClosed = TRUE
    /\ stdin = <<"doc">>
    /\ document \in BranchDocuments
    /\ InitProcess

NextBranch ==
    \/ ReadStdin
    \/ BranchCommand
    \/ BranchLookup
    \/ BranchDangerous
    \/ BranchPush
    \/ BranchDelete
    \/ Catch

SpecBranch == InitBranch /\ [][NextBranch]_vars

\* target paths of Write and Edit events: checked, exempt by pattern, exempt
\* by extension
Paths == {<<"s","r","c","/","a","p","p",".","j","s">>, <<"c","o","n","f","i","g","/",".","e","n","v",".","e","x","a","m","p","l","e">>, <<"a","s","s","e","t","s","/","l","o","g","o",".","p","n","g">>}

\* six different access keys on six lines
SixKeys ==
    <<"A","K","I","A","I","O","S","F","O","D","N","N","7","E","X","A","M","P","L","A","\n","A","K","I","A","I","O","S","F","O","D","N","N","7","E","X","A","M","P","L","B","\n","A","K","I","A","I","O","S","F","O","D","N","N","7","E","X","A","M","P","L","C","\n">>
        \o <<"A","K","I","A","I","O","S","F","O","D","N","N","7","E","X","A","M","P","L","D","\n","A","K","I","A","I","O","S","F","O","D","N","N","7","E","X","A","M","P","L","E","\n","A","K","I","A","I","O","S","F","O","D","N","N","7","E","X","A","M","P","L","F">>

\* contents with and without secrets
SecretContents ==
    {<<"h","e","l","l","o"," ","w","o","r","l","d">>, <<" "," "," ">>, <<"\n","\t">>,
     <<"c","o","n","s","t"," ","k"," ","="," ","'","A","K","I","A","I","O","S","F","O","D","N","N","7","E","X","A","M","P","L","E","'",";">>,
     <<"A","K","I","A","I","O","S","F","O","D","N","N","7","E","X","A","M","P","L","E"," ","A","K","I","A","I","O","S","F","O","D","N","N","7","E","X","A","M","P","L","E">>,
     SixKeys,
     <<"p","a","s","s","w","o","r","d"," ","="," ","'","h","u","n","t","e","r","2","h","u","n","t","e","r","2","'">>,
     <<"p","a","s","s","w","o","r","d"," ","="," ","'","m","y","t","e","s","t","p","a","s","s","1","'">>,
     <<"a","p","i","_","k","e","y"," ","="," ","'","s","k","_","t","e","s","t","_","a","b","c","d","e","f","g","h","i","j","k","l","m","n","o","p","q","r","s","t","u","v","'">>,
     <<"a","p","i","_","k","e","y"," ","="," ","'","z","k","_","a","b","c","d","e","f","g","h","i","j","k","l","m","n","o","p","q","r","s","t","u","v","'">>,
     <<"t","=","g","h","p","_","a","b","c","d","e","f","g","h","i","j","k","l","m","n","o","p","q","r","s","t","u","v","w","x","y","z","0","1","2","3","4","5","6","7","8","9">>,
     <<"x"," ","a","2","V","5","P","U","F","L","S","U","F","J","T","1","N","G","T","0","R","O","T","j","d","F","W","E","F","N","U","E","x","F","I","G","F","u","Z","C","B","t","b","3","J","l","I","H","R","l","e","H","Q","h","I","Q","=","="," ","y">>,
     <<"x"," ","a","G","V","s","b","G","8","g","d","2","9","y","b","G","Q","g","d","G","h","p","c","y","B","p","c","y","B","o","Y","X","J","t","b","G","V","z","c","y","B","0","Z","X","h","0","L","C","B","v","a","y","E","h","I","Q","=","="," ","y">>,
     <<"e","y","J","h","b","G","c","i","O","i","J","I","U","z","I","1","N","i","I","s","I","n","R","5","c","C","I","6","I","k","p","X","V","C","J","9",".","e","y","J","z","d","W","I","i","O","i","J","0","Z","X","N","0","L","X","V","z","Z","X","I","i","L","C","J","p","Y","X","Q","i","O","j","F","9",".","a","b","c","d","e","f","g","h","i","j","k","l">>,
     <<"e","y","J","h","b","G","c","i","O","i","J","I","U","z","I","1","N","i","I","s","I","n","R","5","c","C","I","6","I","k","p","X","V","C","J","9",".","e","y","J","z","d","W","I","i","O","i","J","h","b","G","l","j","Z","S","I","s","I","m","l","z","c","y","I","6","I","m","N","v","c","n","A","i","f","Q",".","a","b","c","d","e","f","g","h","i","j","k","l">>,
     <<"-","-","-","-","-","B","E","G","I","N"," ","R","S","A"," ","P","R","I","V","A","T","E"," ","K","E","Y","-","-","-","-","-">>,
     <<"p","o","s","t","g","r","e","s",":","/","/","u","s","e","r",":","h","u","n","t","e","r","2","@","d","b","/","x">>,
     <<"i","d"," ","1","2","3","e","4","5","6","7","-","e","8","9","b","-","1","2","d","3","-","a","4","5","6","-","4","2","6","6","1","4","1","7","4","0","0","0">>,
     <<"h","e","r","o","k","u","\n","i","d"," ","1","2","3","e","4","5","6","7","-","e","8","9","b","-","1","2","d","3","-","a","4","5","6","-","4","2","6","6","1","4","1","7","4","0","0","0">>,
     <<"k"," ","="," ","'","s","k","_","'"," ","+"," ","r","e","s","t">>,
     <<"k","e","y",":"," ","$","{","A","K","I","A","I","O","S","F","O","D","N","N","7","E","X","A","M","P","L","E","}">>}

\* contents with and without personal data
PiiContents ==
    {<<"h","e","l","l","o"," ","w","o","r","l","d">>, <<" "," "," ">>,
     <<"s","s","n"," ","0","7","8","-","0","5","-","1","1","2","0">>, <<"s","s","n"," ","1","2","3","-","4","5","-","6","7","8","9">>, <<"n"," ","0","0","0","1","2","3","4","5","6">>, <<"n"," ","0","7","8","0","5","1","1","2","0">>,
     <<"c","a","r","d"," ","4","5","3","9","5","7","8","7","6","3","6","2","1","4","8","6">>, <<"c","a","r","d"," ","4","1","1","1","1","1","1","1","1","1","1","1","1","1","1","1">>,
     <<"c","a","r","d"," ","4","5","3","9","-","5","7","8","7","-","6","3","6","2","-","1","4","8","6">>,
     <<"c","a","l","l"," ","(","2","1","2",")"," ","8","6","7","-","5","3","0","9">>, <<"c","a","l","l"," ","2","1","2","-","5","5","5","-","0","1","8","7">>,
     <<"m","a","i","l"," ","a","l","i","c","e","@","c","o","r","p",".","c","o","m">>, <<"m","a","i","l"," ","b","o","b","@","e","x","a","m","p","l","e",".","c","o","m">>, <<"m","a","i","l"," ","j","o","h","n",".","d","o","e","@","c","o","r","p",".","c","o","m">>,
     <<"h","o","s","t"," ","8",".","8",".","8",".","8">>, <<"h","o","s","t"," ","1","2","7",".","0",".","0",".","1">>,
     <<"d","o","b",":"," ","0","1","/","0","2","/","1","9","9","0">>,
     <<"c","a","r","d"," ","4","1","1","1","1","1","1","1","1","1","1","1","1","1","1","2">>, <<"c","a","r","d"," ","4","1","1","1","-","1","1","1","1","-","1","1","1","1","-","1","1","1","2">>,
     <<"m","a","i","l"," ","a","l","e","x","a","n","d","e","r",".","h","a","m","i","l","t","o","n","@","c","o","r","p",".","c","o","m">>,
     <<"m","a","i","l"," ","a","l","e","x","a","n","d","e","r",".","v","o","n",".","h","a","m","i","l","t","o","n","@","c","o","r","p",".","c","o","m">>,
     <<"p","a","y"," ","4","5","3","9","5","7","8","7","6","3","6","2","1","4","8","6"," ","o","r"," ","4","5","3","9","5","7","8","7","6","3","6","2","1","4","8","7">>}

\* n line terminators
Newlines(n) == [i \in 1..n |-> "\n"]

\* tokens of the two rules that need context, and their context words
Uuid      == <<"1","2","3","e","4","5","6","7","-","e","8","9","b","-","1","2","d","3","-","a","4","5","6","-","4","2","6","6","1","4","1","7","4","0","0","0">>
AwsSecret == <<"w","J","a","l","r","X","U","t","n","F","E","M","I","/","K","7","M","D","E","N","G","/","b","P","x","R","f","i","C","Y","E","X","A","M","P","L","E","K","E","Y">>

\* how many lines lie between a token and its context word
ContextDistances == {2, 3, 4, 10}

\* contents with the context word d lines before or after the token
ContextContents ==
    {<<"h","e","r","o","k","u">> \o Newlines(d) \o Uuid : d \in ContextDistances}
        \cup {Uuid \o Newlines(d) \o <<"h","e","r","o","k","u">> : d \in ContextDistances}
        \cup {<<"a","w","s","_","s","e","c","r","e","t",":">> \o Newlines(d) \o <<"k"," ","="," ">> \o AwsSecret \o <<" ","#"," ","e","n","d">> :
                  d \in {3, 4}}

\* the events of a Write or Edit tool call with these contents, well-formed
\* and not
ContentDocuments(contents) ==
    {Event(ToolInput(Str(p), Str(c), Undef, Undef)) : p \in Paths, c \in contents}
        \cup {Event(ToolInput(Str(<<"s","r","c","/","a","p","p",".","j","s">>), Undef, Str(c), Undef)) :
                  c \in contents}
        \cup {NullEvent, Event(NoToolInput),
              Event(ToolInput(Undef, Str(<<"h","e","l","l","o"," ","w","o","r","l","d">>), Undef, Undef)),
              Event(ToolInput(Num(<<"1","2">>), Str(<<"h","e","l","l","o"," ","w","o","r","l","d">>), Undef, Undef)),
              Event(ToolInput(Str(<<"s","r","c","/","a","p","p",".","j","s">>), Num(<<"1","2">>), Undef, Undef)),
              Event(ToolInput(Str(<<"s","r","c","/","a","p","p",".","j","s">>), Undef, Undef, Undef))}

\* the code of a printable character or of a line feed
CharCode(c) ==
    IF c = "\n" THEN 10
    ELSE (CHOOSE i \in DOMAIN AsciiChars : AsciiChars[i] = c) + 31

\* the base64 text of the bytes b[i..], with padding
RECURSIVE Base64Text(_, _)
Base64Text(b, i) ==
    LET left == Len(b) - i + 1
        Sym(v) == Base64Chars[v + 1]
        c1 == Sym(b[i] \div 4)
        c2(next) == Sym((b[i] % 4) * 16 + next \div 16)
        c3(next) == Sym((b[i + 1] % 16) * 4 + next \div 64)
        c4 == Sym(b[i + 2] % 64)
    IN  IF left <= 0 THEN <<>>
        ELSE IF left = 1 THEN <<c1, c2(0), "=", "=">>
        ELSE IF left = 2 THEN <<c1, c2(b[i + 1]), c3(0), "=">>
        ELSE <<c1, c2(b[i + 1]), c3(b[i + 2]), c4>> \o Base64Text(b, i + 3)

\* what `base64` prints for a text
Base64Encode(text) == Base64Text([i \in DOMAIN text |-> CharCode(text[i])], 1)

\* one token of every form BASE64_RESCAN_PATTERNS looks for: the prefix and
\* the fewest token characters the pattern asks for
RescanTokens ==
    {<<"A","K","I","A","I","O","S","F","O","D","N","N","7","E","X","A","M","P","L","E">>,
     <<"g","h","p","_","a","b","c","d","e","f","g","h","i","j","k","l","m","n","o","p","q","r","s","t","u","v","w","x","y","z","0","1","2","3","4","5","6","7","8","9">>,
     <<"g","h","o","_","a","b","c","d","e","f","g","h","i","j","k","l","m","n","o","p","q","r","s","t","u","v","w","x","y","z","0","1","2","3","4","5","6","7","8","9">>,
     <<"g","h","u","_","a","b","c","d","e","f","g","h","i","j","k","l","m","n","o","p","q","r","s","t","u","v","w","x","y","z","0","1","2","3","4","5","6","7","8","9">>,
     <<"g","h","s","_","a","b","c","d","e","f","g","h","i","j","k","l","m","n","o","p","q","r","s","t","u","v","w","x","y","z","0","1","2","3","4","5","6","7","8","9">>,
     <<"g","l","p","a","t","-","a","b","c","d","e","f","g","h","i","j","0","1","2","3","4","5","6","7","8","9">>,
     <<"s","k","_","l","i","v","e","_","a","b","c","d","e","f","g","h","i","j","k","l","m","n","o","p","q","r","s","t","u","v","w","x">>,
     <<"p","k","_","l","i","v","e","_","a","b","c","d","e","f","g","h","i","j","k","l","m","n","o","p","q","r","s","t","u","v","w","x">>,
     <<"x","o","x","b","-","1","2","3","4","5","6","7","8","9","0">>,
     <<"x","o","x","b","-","1","2","3","4","5","6","7","8","9","0","1","2","-","1","2","3","4","5","6","7","8","9","0","1","2","3","-","a","b","c","d","e","f","g","h","i","j","k","l","m","n","o","p","q","r","s","t","u","v","w","x">>,
     <<"n","p","m","_","a","b","c","d","e","f","g","h","i","j","k","l","m","n","o","p","q","r","s","t","u","v","w","x","y","z","0","1","2","3","4","5","6","7","8","9">>,
     <<"A","I","z","a","S","y","A","1","2","3","4","5","6","7","8","9","0","a","b","c","d","e","f","g","h","i","j","k","l","m","n","o","p","q","r","s","t","u","v","w">>,
     <<"-","-","-","-","-","B","E","G","I","N"," ","R","S","A"," ","P","R","I","V","A","T","E"," ","K","E","Y","-","-","-","-","-">>}

\* ordinary prose, and base64 text that decodes to bytes outside the
\* printable range
Prose == <<"t","h","e"," ","q","u","i","c","k"," ","b","r","o","w","n"," ","f","o","x"," ","j","u","m","p","s"," ","o","v","e","r"," ","t","h","e"," ","l","a","z","y"," ","d","o","g">>
Unprintable == [i \in 1..44 |-> "z"]

\* contents that hold nothing but base64 text
EncodedContents ==
    {Base64Encode(t) : t \in RescanTokens \cup {Prose}} \cup {Unprintable}

\* a token whose validator throws inside its try block (a numeric sub claim,
\* a payload that is not JSON), between findings of an earlier and a later
\* rule of the table
ThrowingContents ==
    {<<"A","K","I","A","I","O","S","F","O","D","N","N","7","E","X","A","M","P","L","E","\n">>
         \o <<"e","y","J","h","b","G","c","i","O","i","J","I","U","z","I","1","N","i","I","s","I","n","R","5","c","C","I","6","I","k","p","X","V","C","J","9",".">> \o p \o <<".","a","b","c","d","e","f","g","h","i","j","k","l">>
         \o <<"\n","k"," ","="," ","'","s","k","_","'"," ","+"," ","r","e","s","t">> :
       p \in {<<"e","y","J","z","d","W","I","i","O","j","E","y","M","z","Q","1","N","j","d","9">>, <<"e","y","J","z","d","W","I","i","O","m","9","v","c","H","M","h","I","S","F","9">>}}

\* paths on either side of every clause of shouldSkipFile
SkipPaths ==
    {<<>>, <<"R","E","A","D","M","E">>, <<"a","/","B",".","P","N","G">>, <<"a","r","c","h","i","v","e",".","t","a","r",".","g","z">>, <<"d","i","r",".","p","n","g","/","f","i","l","e">>,
     <<".","p","n","g">>, <<"p","n","g">>, <<"n","o","d","e","_","m","o","d","u","l","e","s","/","x",".","j","s">>, <<"a","p","p",".","m","i","n",".","j","s">>, <<"m","i","n",".","j","s">>,
     <<"y","a","r","n",".","l","o","c","k",".","b","a","k">>, <<"n","o","t","e","s",".","S","a","m","p","l","e">>, <<"x",".","t","e","m","p","l","a","t","e",".","j","s">>}

\* a secret written to each of these paths, and written with no path at all
SkipDocuments ==
    {Event(ToolInput(Str(p), Str(<<"c","o","n","s","t"," ","k"," ","="," ","'","A","K","I","A","I","O","S","F","O","D","N","N","7","E","X","A","M","P","L","E","'",";">>),
                     Undef, Undef)) : p \in SkipPaths}
        \cup {Event(ToolInput(Undef, Str(<<"c","o","n","s","t"," ","k"," ","="," ","'","A","K","I","A","I","O","S","F","O","D","N","N","7","E","X","A","M","P","L","E","'",";">>),
                              Undef, Undef))}

\* the secrets guard on every Write or Edit event
InitSecrets ==
    /\ hook = "secrets-blocker"
    /\ failClosed = TRUE
    /\ stdin = <<"doc">>
    /\ document \in ContentDocuments(SecretContents \cup ContextContents
                                         \cup ThrowingContents
                                         \cup EncodedContents)
                      \cup SkipDocuments
    /\ InitProcess

NextSecrets ==
    \/ ReadStdin
    \/ SecretsParse
    \/ SecretsSkip
    \/ SecretsBlank
    \/ SecretsScan
    \/ Catch

SpecSecrets == InitSecrets /\ [][NextSecrets]_vars

\* the PII guard on every Write or Edit event
InitPii ==
    /\ hook = "pii-blocker"
    /\ failClosed = FALSE
    /\ stdin = <<"doc">>
    /\ document \in ContentDocuments(PiiContents)
    /\ InitProcess

NextPii ==
    \/ PiiRead
    \/ PiiParse
    \/ PiiSkip
    \/ PiiBlank
    \/ PiiScan
    \/ PiiCatch

SpecPii == InitPii /\ [][NextPii]_vars

\* a detector called MaxCalls times on one content in one process
InitDetect ==
    /\ hook \in {"secrets-blocker", "pii-blocker"}
    /\ failClosed = (hook = "secrets-blocker")
    /\ stdin = <<>>
    /\ document = Undef
    /\ pc = "detect"
    /\ event = NoEvent
    /\ exitCodes = <<>>
    /\ stdout = <<>>
    /\ stderr = <<>>
    /\ command = Undef
    /\ currentBranch = None
    /\ pushTarget = None
    /\ filePath = Undef
    /\ content \in {Str(c) : c \in (IF hook = "secrets-blocker"
                                      THEN SecretContents \cup ContextContents
                                      ELSE PiiContents)}
    /\ findings = <<>>
    /\ NoCalls
    /\ NoHistory
    /\ NoRunner

NextDetect ==
    \/ DetectSecrets
    \/ DetectPii

SpecDetect == InitDetect /\ [][NextDetect]_vars

\* no hook process, no detector call
NoHook ==
    /\ hook = "none"
    /\ failClosed = FALSE
    /\ stdin = <<>>
    /\ document = Undef
    /\ pc = "none"
    /\ event = NoEvent
    /\ exitCodes = <<>>
    /\ stdout = <<>>
    /\ stderr = <<>>
    /\ command = Undef
    /\ currentBranch = None
    /\ pushTarget = None
    /\ filePath = Undef
    /\ content = Undef
    /\ findings = <<>>
    /\ NoCalls

\* the history after k completions, the last of them at time 0
Earlier(k) ==
    [i \in 1..k |-> [at |-> i - k,
                  event |-> HookData("completed", Str(<<"R","u","n"," ","t","e","s","t","s">>), Completed)]]

\* the hook on a project whose history is empty, one short of the cap, or
\* at the cap
InitNotify ==
    /\ hook = "agent-notify"
    /\ failClosed = FALSE
    /\ stdin = <<>>
    /\ document = Undef
    /\ pc = "none"
    /\ event = NoEvent
    /\ exitCodes = <<>>
    /\ stdout = <<>>
    /\ stderr = <<>>
    /\ command = Undef
    /\ currentBranch = None
    /\ pushTarget = None
    /\ filePath = Undef
    /\ content = Undef
    /\ findings = <<>>
    /\ NoCalls
    /\ NoRunner
    /\ clock = 0
    /\ completions \in {Earlier(k) : k \in {0, HistoryCap - 1, HistoryCap}}
    /\ history = [i \in DOMAIN completions |->
                     HistoryEntry(completions[i].event, completions[i].at)]

NextNotify == AgentNotify

SpecNotify == InitNotify /\ [][NextNotify]_vars

\* the configuration a run reads from its environment
MaxRetries == 2
MaxIterations == 2
Configs ==
    [MAX_RETRIES : 1..MaxRetries, MAX_ITERATIONS : 1..MaxIterations,
     MAX_CHANGED_FILES : {1},
     CURRENT_BRANCH : {"main", "autopilot/x", ""}]

\* the runs start; no session has been started
InitRuns(runs) ==
    /\ runner = [r \in runs |-> "branch"]
    /\ existingPid = [r \in runs |-> ""]
    /\ trap = [r \in runs |-> FALSE]
    /\ ITERATION = [r \in runs |-> 0]
    /\ FAILURES = [r \in runs |-> 0]
    /\ changed = 0
    /\ sessions = <<>>

\* one run on a project: with or without a PID file (of a run that has
\* crashed, or of a run that is still alive), with or without a pause file
InitAutopilot ==
    /\ NoHook
    /\ NoHistory
    /\ InitRuns({"run1"})
    /\ config \in Configs
    /\ remaining \in 0..MaxTasks
    /\ pidFile \in {None, Some("gone"), Some("other")}
    /\ pauseFile \in BOOLEAN

\* the steps of a run
RunStep(r) ==
    \/ BranchCheck(r)
    \/ LockTest(r)
    \/ LockRead(r)
    \/ LockProbe(r)
    \/ LockStale(r)
    \/ LockWrite(r)
    \/ TrapSet(r)
    \/ Preflight(r)
    \/ LoopTest(r)
    \/ PauseTest(r)
    \/ SessionBegin(r)
    \/ SessionEnd(r)
    \/ CheckChangedFiles(r)
    \/ Cooldown(r)

NextAutopilot ==
    \/ \E r \in DOMAIN runner : BranchCheck(r)
    \/ \E r \in DOMAIN runner : LockTest(r)
    \/ \E r \in DOMAIN runner : LockRead(r)
    \/ \E r \in DOMAIN runner : LockProbe(r)
    \/ \E r \in DOMAIN runner : LockStale(r)
    \/ \E r \in DOMAIN runner : LockWrite(r)
    \/ \E r \in DOMAIN runner : TrapSet(r)
    \/ \E r \in DOMAIN runner : Preflight(r)
    \/ \E r \in DOMAIN runner : LoopTest(r)
    \/ \E r \in DOMAIN runner : PauseTest(r)
    \/ \E r \in DOMAIN runner : SessionBegin(r)
    \/ \E r \in DOMAIN runner : SessionEnd(r)
    \/ \E r \in DOMAIN runner : CheckChangedFiles(r)
    \/ \E r \in DOMAIN runner : Cooldown(r)
    \/ UserPause
    \/ UserResume

SpecAutopilot == InitAutopilot /\ [][NextAutopilot]_vars

\* the run keeps running, and timeout ends every session
FairAutopilot ==
    /\ SpecAutopilot
    /\ WF_vars(\E r \in DOMAIN runner : RunStep(r))

\* two runs started on one project that has one task, with no PID file or
\* with the PID file of a run that has crashed
InitLock ==
    /\ NoHook
    /\ NoHistory
    /\ InitRuns({"run1", "run2"})
    /\ config \in {c \in Configs : /\ c.MAX_RETRIES = 1
                                    /\ c.MAX_ITERATIONS = 1
                                    /\ c.CURRENT_BRANCH = "autopilot/x"}
    /\ remaining \in {0, 1}
    /\ pidFile \in {None, Some("gone")}
    /\ pauseFile = FALSE

SpecLock == InitLock /\ [][NextAutopilot]_vars

\* lines of standard input
MaxLines == 2
Inputs == SeqsUpTo(LineKinds, MaxLines)

\* sizes of file contents around the two limits, in bytes
FileSizes ==
    {1, MAX_FILE_SIZE_KB * 1024, MAX_FILE_SIZE_KB * 1024 + 1,
     BLOCK_SIZE_KB * 1024, BLOCK_SIZE_KB * 1024 + 1}

\* the events of a Write tool call with contents of these sizes
FileSizeDocuments ==
    {Event(ToolInput(Str(p), Filler(n), Undef, Undef)) :
         p \in {<<"s","r","c","/","a","p","p",".","j","s">>, <<"d","i","s","t","/","a","p","p",".","m","i","n",".","j","s">>}, n \in FileSizes}
        \cup {NullEvent, Event(NoToolInput),
              Event(ToolInput(Undef, Filler(1), Undef, Undef)),
              Event(ToolInput(Str(<<"s","r","c","/","a","p","p",".","j","s">>), Num(<<"1","2">>), Undef, Undef)),
              Event(ToolInput(Num(<<"1","2">>), Filler(BLOCK_SIZE_KB * 1024 + 1), Undef,
                              Undef))}

\* contents in which a value occurs twice, with another one between
RepeatedKeys ==
    <<"A","K","I","A","I","O","S","F","O","D","N","N","7","E","X","A","M","P","L","A"," ","A","K","I","A","I","O","S","F","O","D","N","N","7","E","X","A","M","P","L","B"," ","A","K","I","A","I","O","S","F","O","D","N","N","7","E","X","A","M","P","L","A">>
RepeatedNumbers == <<"s","s","n"," ","0","7","8","-","0","5","-","1","1","2","0",","," ","0","7","8","-","0","5","-","1","1","2","1",","," ","0","7","8","-","0","5","-","1","1","2","0">>

\* a few command lines of each kind
SampleCommands ==
    {<<"g","i","t"," ","s","t","a","t","u","s">>, <<"g","i","t"," ","r","e","s","e","t"," ","-","-","h","a","r","d"," ","H","E","A","D","~","1">>, <<"g","i","t"," ","p","u","s","h">>,
     <<"g","i","t"," ","p","u","s","h"," ","o","r","i","g","i","n"," ","m","a","i","n">>, <<"g","i","t"," ","p","u","s","h"," ","o","r","i","g","i","n"," ","f","e","a","t","u","r","e","/","x">>,
     <<"g","i","t"," ","p","u","s","h"," ","-","f"," ","o","r","i","g","i","n"," ","f","e","a","t","u","r","e","/","x">>, <<"g","i","t"," ","p","u","s","h"," ","o","r","i","g","i","n"," ","-","-","d","e","l","e","t","e"," ","m","a","i","n">>,
     <<"g","i","t"," ","p","u","s","h"," ","-","-","d","e","l","e","t","e"," ","m","a","i","n">>, <<"g","i","t"," ","p","u","s","h"," ","o","r","i","g","i","n"," ","f","e","a","t","u","r","e","/","x"," ","m","a","i","n">>}

SampleDocuments(h) ==
    CASE h = "branch-protection" ->
             {Event(ToolInput(Undef, Undef, Undef, Str(c))) : c \in SampleCommands}
                 \cup {NullEvent, Event(ToolInput(Undef, Undef, Undef, Num(<<"1","2">>)))}
      [] h = "secrets-blocker" ->
             ContentDocuments({<<"h","e","l","l","o"," ","w","o","r","l","d">>, <<" "," "," ">>,
                               <<"c","o","n","s","t"," ","k"," ","="," ","'","A","K","I","A","I","O","S","F","O","D","N","N","7","E","X","A","M","P","L","E","'",";">>,
                               <<"p","a","s","s","w","o","r","d"," ","="," ","'","m","y","t","e","s","t","p","a","s","s","1","'">>,
                               RepeatedKeys})
      [] h = "pii-blocker" ->
             ContentDocuments({<<"h","e","l","l","o"," ","w","o","r","l","d">>, <<" "," "," ">>, <<"s","s","n"," ","0","7","8","-","0","5","-","1","1","2","0">>,
                               <<"s","s","n"," ","1","2","3","-","4","5","-","6","7","8","9">>, RepeatedNumbers})
      [] h = "file-size-check" -> FileSizeDocuments
      [] h = "readStdin" -> {NullEvent, Event(NoToolInput)}

Hooks ==
    {"secrets-blocker", "pii-blocker", "branch-protection", "file-size-check",
     "readStdin"}

\* the three security guards
Guards == {"secrets-blocker", "pii-blocker", "branch-protection"}

\* every hook on every input; "readStdin" is readStdin called on its own,
\* with either value of failClosed
Init ==
    /\ hook \in Hooks
    /\ failClosed \in (IF hook = "readStdin" THEN BOOLEAN
                       ELSE {hook \in {"secrets-blocker", "branch-protection"}})
    /\ stdin \in Inputs
    /\ document \in SampleDocuments(hook)
    /\ InitProcess

Next ==
    \/ ReadStdin
    \/ BranchCommand
    \/ BranchLookup
    \/ BranchDangerous
    \/ BranchPush
    \/ BranchDelete
    \/ SecretsParse
    \/ SecretsSkip
    \/ SecretsBlank
    \/ SecretsScan
    \/ Catch
    \/ PiiRead
    \/ PiiParse
    \/ PiiSkip
    \/ PiiBlank
    \/ PiiScan
    \/ PiiCatch
    \/ FileSizeEnd

Spec == Init /\ [][Next]_vars

-----------------------------------------------------------------------------
(* Decisions                                                               *)

\* the process has ended as allowAndExit ends it
Allowed ==
    pc = "exited" /\ exitCodes = <<0>> /\ stdout = <<"{}">> /\ stderr = <<>>

\* the process has ended as blockAndExit ends it
Blocked ==
    pc = "exited" /\ exitCodes = <<2>> /\ stdout = <<>> /\ stderr # <<>>

\* the current-branch lookup returned a branch
LookupSucceeded == currentBranch # None

-----------------------------------------------------------------------------
(* Properties                                                              *)

\* C1: for a well-formed request to the secrets guard whose path is not
\* exempt and whose content is not blank, the guard ends with Allow ('{}' on
\* stdout, exit status 0) exactly when the deduplicated findings of the
\* content are empty, and otherwise with Block: exit status 2 and the report
\* of those findings on stderr.
C1_SecretsDecision ==
    LET req == parseHookEvent(document)
        fs  == detectSecrets(req.content.v)
    IN  (/\ hook = "secrets-blocker"
         /\ pc = "exited"
         /\ JsonParses(stdin)
         /\ document.t = "object"
         /\ req.filePath.t = "string"
         /\ req.content.t = "string"
         /\ ~shouldSkipFile(req.filePath.v, EXTRA_SKIP_PATTERNS)
         /\ Trim(req.content.v) # <<>>)
        => /\ Allowed <=> fs = <<>>
           /\ fs # <<>> => /\ Blocked
                           /\ stderr = <<SecretsMessage(req.filePath.v, fs)>>

\* a checked file with a secret in it has been blocked
C1_Witness ==
    /\ hook = "secrets-blocker"
    /\ document = Event(ToolInput(Str(<<"s","r","c","/","a","p","p",".","j","s">>),
                                  Str(<<"c","o","n","s","t"," ","k"," ","="," ","'","A","K","I","A","I","O","S","F","O","D","N","N","7","E","X","A","M","P","L","E","'",";">>),
                                  Undef, Undef))
    /\ Blocked
    /\ Len(findings) = 1

\* C2: every run of a guard (secrets-blocker, pii-blocker,
\* branch-protection) produces exactly one decision: nothing is written
\* before the process ends, it ends once, and it ends with Allow or with
\* Block.
C2_ExactlyOneDecision ==
    hook \in Guards =>
        /\ Len(exitCodes) <= 1
        /\ pc # "exited" => exitCodes = <<>> /\ stdout = <<>> /\ stderr = <<>>
        /\ pc = "exited" => Allowed \/ Blocked

\* C3: readStdin on blank or unparsable input ends the process without
\* returning an event: with failClosed it blocks (one diagnostic on stderr,
\* exit status 2, nothing on stdout), without it it allows ('{}', exit
\* status 0); on one parsable document it returns the document and has
\* written nothing when it returns.
C3_ReadStdinContract ==
    (hook \in {"readStdin", "secrets-blocker", "branch-protection"}
         /\ pc # "readStdin") =>
        IF JsonParses(stdin)
        THEN /\ event = document
             /\ pc = "main" => exitCodes = <<>> /\ stdout = <<>> /\ stderr = <<>>
        ELSE /\ pc = "exited"
             /\ event = NoEvent
             /\ IF failClosed
                THEN exitCodes = <<2>> /\ stdout = <<>> /\ Len(stderr) = 1
                ELSE Allowed

\* readStdin alone, failing closed on input that is no JSON
C3_Witness ==
    /\ hook = "readStdin"
    /\ failClosed
    /\ stdin = <<"junk">>
    /\ pc = "exited"
    /\ exitCodes = <<2>>
    /\ event = NoEvent

\* C4: each guard fails closed: on empty input, on unparsable input and on
\* an exception inside main (here: the event is the JSON null) it ends with
\* exit status 2.
C4_GuardsFailClosed ==
    (hook \in Guards /\ pc = "exited"
         /\ (~JsonParses(stdin) \/ document.t = "null"))
        => exitCodes = <<2>>

\* C5: a hook that announces a block ends with exit status 2, one that
\* allows with 0: no block is signalled with another status.
C5_BlockExitsTwo ==
    pc = "exited" =>
        /\ (\E i \in DOMAIN stdout : stdout[i] # "{}") => exitCodes = <<2>>
        /\ stdout = <<"{}">> => exitCodes = <<0>>
        /\ exitCodes \notin {<<0>>, <<2>>} =>
               /\ stdout = <<>>
               /\ \A i \in DOMAIN stderr : \A j \in DOMAIN stderr[i] :
                      stderr[i][j].kind = "exception"

\* C6: no message on a blocking path (exit status 2) carries the text of a
\* caught exception.
C6_NoExceptionText ==
    exitCodes = <<2>> =>
        \A i \in DOMAIN stderr : \A j \in DOMAIN stderr[i] :
            stderr[i][j].kind # "exception"

\* the protected branches, as a set
ProtectedSet == {PROTECTED_BRANCHES[i] : i \in DOMAIN PROTECTED_BRANCHES}

\* C7: for each protected branch B and each of the seven documented push
\* forms, extractPushTarget returns B, and the guard blocks whatever the
\* current branch is when the lookup succeeded.
C7_PushFormsBlocked ==
    \A b \in ProtectedSet :
        (hook = "branch-protection" /\ command.t = "string"
             /\ command.v \in PushForms(b))
            => /\ extractPushTarget(command.v) = Some(b)
               /\ (pc = "delete" \/ pushTarget # None) => pushTarget = Some(b)
               /\ (pc = "exited" /\ LookupSucceeded) => Blocked

\* a push to master by a qualified refspec, from a feature branch, blocked
C7_Witness ==
    /\ command = Str(<<"g","i","t"," ","p","u","s","h"," ","o","r","i","g","i","n"," ","H","E","A","D",":","r","e","f","s","/","h","e","a","d","s","/","m","a","s","t","e","r">>)
    /\ currentBranch = Some(<<"f","e","a","t","u","r","e","/","x">>)
    /\ pushTarget = Some(<<"m","a","s","t","e","r">>)
    /\ Blocked

\* C8, as the code has it: extractPushTarget returns a branch only when the
\* branch is protected; a push to an unprotected branch, a bare push and a
\* command that is no push all give null.
C8_OnlyProtectedTargets ==
    /\ pushTarget # None => pushTarget[1] \in ProtectedSet
    /\ (pc = "delete"
            /\ command.v \in {<<"g","i","t"," ","p","u","s","h"," ","o","r","i","g","i","n"," ","f","e","a","t","u","r","e","/","x">>, <<"g","i","t"," ","p","u","s","h">>,
                              <<"g","i","t"," ","s","t","a","t","u","s">>})
           => pushTarget = None /\ extractPushTarget(command.v) = None

\* the push rule has passed over a push to feature/x
C8_Witness ==
    /\ pc = "delete"
    /\ command = Str(<<"g","i","t"," ","p","u","s","h"," ","o","r","i","g","i","n"," ","f","e","a","t","u","r","e","/","x">>)
    /\ pushTarget = None

\* C8, as stated: a push to feature/x resolves to the target feature/x, and
\* the three results differ.
C8_Original ==
    /\ (pc = "delete" /\ command = Str(<<"g","i","t"," ","p","u","s","h"," ","o","r","i","g","i","n"," ","f","e","a","t","u","r","e","/","x">>))
           => pushTarget = Some(<<"f","e","a","t","u","r","e","/","x">>)
    /\ (pc = "delete" /\ command = Str(<<"g","i","t"," ","p","u","s","h">>))
           => pushTarget # extractPushTarget(<<"g","i","t"," ","s","t","a","t","u","s">>)

\* C9, as the code has it: a remote deletion of a protected branch, in
\* either form, is blocked when the lookup succeeded, by the direct-push
\* rule and with its message; a deletion of an unprotected branch is
\* allowed.
C9_DeletionBlockedAsPush ==
    (hook = "branch-protection" /\ pc = "exited" /\ LookupSucceeded) =>
        /\ \A b \in ProtectedSet :
               command.v \in DeleteForms(b)
                   => Blocked /\ stderr = <<PushMessage(b)>>
        /\ command.v \in DeleteForms(<<"f","e","a","t","u","r","e","/","x">>) => Allowed

\* a deletion of main with the flag before the remote, blocked as a push
C9_Witness ==
    /\ command = Str(<<"g","i","t"," ","p","u","s","h"," ","-","-","d","e","l","e","t","e"," ","o","r","i","g","i","n"," ","m","a","i","n">>)
    /\ LookupSucceeded
    /\ Blocked
    /\ stderr = <<PushMessage(<<"m","a","i","n">>)>>

\* C9, as stated: the block of such a deletion is the block of the deletion
\* rule.
C9_Original ==
    (hook = "branch-protection" /\ pc = "exited" /\ LookupSucceeded) =>
        \A b \in ProtectedSet :
            command.v \in DeleteForms(b)
                => Blocked /\ stderr = <<DeleteMessage(b)>>

\* C10: a command line with a `git push <remote> <refspec>...` in which some
\* refspec normalises to a protected branch is blocked when the lookup
\* succeeded, wherever the refspec stands and whatever command precedes or
\* follows the push (separated by && or ;).
C10_EveryProtectedPushBlocked ==
    LET tokens  == SelectSeq(SplitWs(command.v), LAMBDA a : Len(a) > 0)
        n       == Len(tokens)
        IsSep(j)  == tokens[j] \in {<<"&","&">>, <<";">>}
        HasSep(j) == tokens[j][Len(tokens[j])] = ";"
        Word(j) == IF HasSep(j) THEN SubSeq(tokens[j], 1, Len(tokens[j]) - 1)
                   ELSE tokens[j]
        PushAt(i) == /\ i + 1 <= n
                     /\ ToLowerCase(tokens[i]) = <<"g","i","t">>
                     /\ ToLowerCase(Word(i + 1)) = <<"p","u","s","h">>
                     /\ ~HasSep(i + 1)
        Stop(i) == MinOf({j \in (i + 2)..n : IsSep(j) \/ HasSep(j)} \cup {n + 1})
        Count(i) == IF Stop(i) <= n /\ ~IsSep(Stop(i)) THEN Stop(i) - i - 1
                    ELSE Stop(i) - i - 2
        Args(i) == [j \in 1..Count(i) |-> Word(i + 1 + j)]
        Refspecs(i) == LET p == PositionalArgs(Args(i), 1)
                       IN  {p[k] : k \in 2..Len(p)}
        protectedPush ==
            \E i \in 1..n : PushAt(i)
                /\ \E r \in Refspecs(i) : RefspecTarget(r) \in ProtectedSet
    IN  (hook = "branch-protection" /\ command.t = "string" /\ pc = "exited"
             /\ LookupSucceeded /\ protectedPush)
            => Blocked

\* C11: when the current branch is main, master or production, a
\* `git commit` command is blocked by the branch guard.
C11_CommitBlocked ==
    (/\ hook = "branch-protection"
     /\ pc = "exited"
     /\ LookupSucceeded
     /\ command.t = "string"
     /\ StartsWith(command.v, <<"g","i","t"," ","c","o","m","m","i","t">>)
     /\ currentBranch[1] \in ProtectedSet)
        => Blocked

\* the command of the event has been read
CommandRead == command # Undef

\* C12: when the current-branch lookup fails or times out, the branch guard
\* allows, whatever the command is (a push to or a deletion of a protected
\* branch included), and none of the three block rules runs: the process
\* ends at the lookup and no push target is ever resolved.
C12_LookupFailureAllows ==
    (hook = "branch-protection" /\ CommandRead /\ pc # "lookup"
         /\ ~LookupSucceeded)
        => Allowed /\ pushTarget = None

\* a push to main allowed because the lookup failed
C12_Witness ==
    /\ hook = "branch-protection"
    /\ command = Str(<<"g","i","t"," ","p","u","s","h"," ","o","r","i","g","i","n"," ","m","a","i","n">>)
    /\ ~LookupSucceeded
    /\ Allowed

\* the words of a command line
Words(cmd) == SelectSeq(SplitWs(cmd), LAMBDA a : Len(a) > 0)

\* a `git push` with the flag f among its arguments
PushCarries(cmd, f) ==
    LET Has(w) == /\ Len(w) >= 3
                  /\ w[1] = <<"g","i","t">>
                  /\ w[2] = <<"p","u","s","h">>
                  /\ \E j \in 3..Len(w) : w[j] = f
    IN  Has(Words(cmd))

\* the destructive operations of the guard's documentation
Destructive(cmd) ==
    \/ \E p \in {<<"g","i","t"," ","r","e","s","e","t"," ","-","-","h","a","r","d">>, <<"g","i","t"," ","c","l","e","a","n"," ","-","f">>, <<"g","i","t"," ","c","h","e","c","k","o","u","t"," ","-","-"," ",".">>,
                 <<"g","i","t"," ","r","e","s","t","o","r","e"," ",".">>, <<"g","i","t"," ","b","r","a","n","c","h"," ","-","D">>} : Contains(cmd, p)
    \/ PushCarries(cmd, <<"-","-","f","o","r","c","e">>)
    \/ PushCarries(cmd, <<"-","f">>)

\* C13: on a protected current branch every command with a destructive
\* operation (a push carrying --force or -f in any argument position
\* included) is blocked by the destructive-operation rule; on an unprotected
\* branch that rule blocks nothing; a push whose only force flag is
\* --force-with-lease is never matched by the rule.
C13_DestructiveBlocked ==
    (hook = "branch-protection" /\ command.t = "string" /\ pc = "exited"
         /\ LookupSucceeded) =>
        /\ (currentBranch[1] \in ProtectedSet /\ Destructive(command.v))
               => Blocked /\ stderr = <<DangerousMessage(currentBranch[1])>>
        /\ currentBranch[1] \notin ProtectedSet
               => stderr # <<DangerousMessage(currentBranch[1])>>
        /\ (PushCarries(command.v, <<"-","-","f","o","r","c","e","-","w","i","t","h","-","l","e","a","s","e">>)
                /\ ~PushCarries(command.v, <<"-","-","f","o","r","c","e">>)
                /\ ~PushCarries(command.v, <<"-","f">>))
               => ~IsDangerous(command.v)

\* the remediation of the destructive-operation block: "Create a feature
\* branch instead: git checkout -b feature/your-feature"
FeatureBranchGuidance == DangerousMessage(<<>>)[3]

\* C14: every block of the branch guard (exit status 2: the three rules and
\* the fail-closed input and exception paths) has the create-a-feature-branch
\* guidance in its message.
C14_BlocksCarryGuidance ==
    (hook = "branch-protection" /\ exitCodes = <<2>>) =>
        \E i \in DOMAIN stderr : \E j \in DOMAIN stderr[i] :
            stderr[i][j] = FeatureBranchGuidance

\* the value of a decimal digit
DigitValue(c) == (CHOOSE i \in DOMAIN DigitChars : DigitChars[i] = c) - 1

\* the Luhn sum of the digits ds from the i-th digit from the right on: every
\* second digit doubled, 9 taken off a double above 9
RECURSIVE LuhnSum(_, _)
LuhnSum(ds, i) ==
    IF i > Len(ds) THEN 0
    ELSE LET Term(d) == IF i % 2 = 1 THEN d
                        ELSE IF 2 * d > 9 THEN 2 * d - 9 ELSE 2 * d
         IN  Term(DigitValue(ds[Len(ds) - i + 1])) + LuhnSum(ds, i + 1)

LuhnValid(text) == LuhnSum(SelectSeq(text, LAMBDA c : c \in Digits), 1) % 10 = 0

\* the two credit-card rules of PII_PATTERNS
CardRules == {3, 4}

\* the PII guard has scanned the content
PiiScanned ==
    /\ hook = "pii-blocker"
    /\ pc = "exited"
    /\ filePath.t = "string"
    /\ content.t = "string"
    /\ ~PiiShouldSkipFile(filePath.v)
    /\ Trim(content.v) # <<>>

HasCardFinding ==
    \E i \in DOMAIN findings :
        \E k \in CardRules : findings[i].type = PII_PATTERNS[k].name

\* C15: the credit-card rules are gated by a Luhn checksum: content with
\* 4111111111111111 yields a credit-card finding, content with
\* 4111111111111112 yields none, and every card-shaped match that becomes a
\* finding has a Luhn sum divisible by 10.
C15_LuhnGated ==
    PiiScanned =>
        /\ content.v = <<"c","a","r","d"," ","4","1","1","1","1","1","1","1","1","1","1","1","1","1","1","1">> => HasCardFinding
        /\ content.v = <<"c","a","r","d"," ","4","1","1","1","1","1","1","1","1","1","1","1","1","1","1","2">> => ~HasCardFinding
        /\ \A k \in CardRules :
               LET ms == MatchAll(PII_PATTERNS[k].pattern, content.v, 1)
               IN  \A i \in DOMAIN ms :
                       PiiFinding(PII_PATTERNS[k], ms[i]) # <<>>
                           => LuhnValid(ms[i].text)

\* the secrets guard has scanned the content
SecretsScanned ==
    /\ hook = "secrets-blocker"
    /\ pc = "exited"
    /\ filePath.t = "string"
    /\ content.t = "string"
    /\ ~shouldSkipFile(filePath.v, EXTRA_SKIP_PATTERNS)
    /\ Trim(content.v) # <<>>

\* the pattern matches the whole of the value
MatchesWhole(re, value) == MatchEnd(re, value, 1) = Len(value) + 1

\* C16: the allowlist cannot be obtained by padding: sk_test_ABC123EXTRA is
\* not suppressed, and a value is suppressed only when an allowlist pattern
\* matches the whole of it (the extracted value or the match), never when it
\* merely starts with or contains a placeholder.
C16_NoPaddingBypass ==
    SecretsScanned =>
        /\ ~isAllowlisted(<<"s","k","_","t","e","s","t","_","A","B","C","1","2","3","E","X","T","R","A">>, ALLOWLIST_PATTERNS)
        /\ \A k \in DOMAIN SECRET_PATTERNS :
               LET ms == MatchAll(SECRET_PATTERNS[k].pattern, content.v, 1)
                   Whole(actual, match) ==
                       \E p \in DOMAIN ALLOWLIST_PATTERNS :
                           \/ MatchesWhole(ALLOWLIST_PATTERNS[p], actual)
                           \/ MatchesWhole(ALLOWLIST_PATTERNS[p], match)
                   Suppressed(actual, match) ==
                       \/ isAllowlisted(actual, ALLOWLIST_PATTERNS)
                       \/ isAllowlisted(match, ALLOWLIST_PATTERNS)
               IN  \A i \in DOMAIN ms :
                       Suppressed(ExtractActual(ms[i].text), ms[i].text)
                           => Whole(ExtractActual(ms[i].text), ms[i].text)

\* the 0-based line of the character at the 0-based offset idx of text: the
\* number of line terminators before it
LineOf(text, idx) == Cardinality({j \in 1..idx : text[j] = "\n"})

\* the rules of SECRET_PATTERNS with a context
ContextRules == {k \in DOMAIN SECRET_PATTERNS : SECRET_PATTERNS[k].context # <<>>}

HasFinding(name) == \E i \in DOMAIN findings : findings[i].type = name

\* C17: a rule with a context yields a finding for a match on line L only
\* if its context pattern occurs on a line of [L-3, L+3]: a context 2 or 3
\* lines away counts, one 4 or 10 lines away does not; and the line computed
\* from a character offset is the line holding that offset, for every
\* offset of the content.
C17_ContextWindow ==
    SecretsScanned =>
        LET lines == SplitOn(content.v, "\n")
            InWindow(ctx, L) ==
                \E j \in DOMAIN lines :
                    j - 1 >= L - 3 /\ j - 1 <= L + 3 /\ Test(ctx, lines[j])
            Near(rule, m) == InWindow(rule.context[1], LineOf(content.v, m.index))
            Gated(rule, ms) ==
                /\ \A i \in DOMAIN ms :
                       hasNearbyContext(content.v, ms[i].index, rule.context[1],
                                        DefaultLineRadius)
                           <=> Near(rule, ms[i])
                /\ HasFinding(rule.name) => \E i \in DOMAIN ms : Near(rule, ms[i])
        IN  /\ \A idx \in 0..(Len(content.v) - 1) :
                   MatchLine(lines, 1, 0, idx) = LineOf(content.v, idx)
            /\ \A k \in ContextRules :
                   Gated(SECRET_PATTERNS[k],
                         MatchAll(SECRET_PATTERNS[k].pattern, content.v, 1))
            /\ \A d \in ContextDistances :
                   content.v \in {<<"h","e","r","o","k","u">> \o Newlines(d) \o Uuid,
                                  Uuid \o Newlines(d) \o <<"h","e","r","o","k","u">>}
                       => (HasFinding(<<"H","e","r","o","k","u"," ","A","P","I"," ","K","e","y">>) <=> d <= 3)

\* a token with its context word exactly three lines below it, reported
C17_Witness ==
    /\ SecretsScanned
    /\ content.v = Uuid \o Newlines(3) \o <<"h","e","r","o","k","u">>
    /\ HasFinding(<<"H","e","r","o","k","u"," ","A","P","I"," ","K","e","y">>)
    /\ Blocked

\* the pair by which findings are told apart
Pair(f) == <<f.type, f.masked>>

\* the findings of a scan before deduplication
RawFindings ==
    IF hook = "secrets-blocker" THEN ScanRules(SECRET_PATTERNS, content.v, 1)
    ELSE PiiScanRules(PII_PATTERNS, content.v, 1)

\* the findings of fs whose pair occurs at no earlier index, in order
FirstOccurrences(fs) ==
    LET keep == {i \in DOMAIN fs : \A j \in 1..(i - 1) : Pair(fs[j]) # Pair(fs[i])}
        Nth(k) == CHOOSE i \in keep : Cardinality({j \in keep : j < i}) = k - 1
    IN  [k \in 1..Cardinality(keep) |-> fs[Nth(k)]]

\* the report either engine writes for the findings fs
Report(fs) ==
    IF hook = "secrets-blocker" THEN SecretsMessage(filePath.v, fs)
    ELSE PiiMessage(filePath.v, fs)

MaskBound == 24

\* C19: the masked value of every finding of either engine is at most a
\* constant long (prefix, bounded mask, suffix), whatever the length of the
\* matched value.
C19_MaskBounded ==
    \A i \in DOMAIN findings : Len(findings[i].masked) <= MaskBound

\* limits tried for formatFindings
MaxLimit == 7

\* the lines of the list of formatFindings
ListedLines(list) == IF list = <<>> THEN <<>> ELSE SplitOn(list, "\n")

\* C20: formatFindings(findings, limit) lists the first min(n, limit)
\* findings in input order, has a 'more' suffix exactly when n > limit, the
\* suffix states n - limit, listed plus announced is n, and the default
\* limit is 5.
C20_FormatFindings ==
    SecretsScanned =>
        LET n == Len(findings)
            Shape(lines, more, limit) ==
                /\ Len(lines) = (IF n < limit THEN n ELSE limit)
                /\ \A j \in DOMAIN lines :
                       lines[j] = <<" "," ","-"," ">> \o findings[j].type \o <<":"," ">>
                                      \o findings[j].masked
                /\ more # <<>> <=> n > limit
                /\ \E k \in 0..n :
                       /\ Len(lines) + k = n
                       /\ k > 0 => more = <<"\n"," "," ",".",".",".","a","n","d"," ">> \o NumberText(k)
                                              \o <<" ","m","o","r","e">>
        IN  /\ \A limit \in 0..MaxLimit :
                   Shape(ListedLines(formatFindings(findings, limit).list),
                         formatFindings(findings, limit).more, limit)
            /\ DefaultLimit = 5
            /\ n > 0 => stderr = <<SecretsMessage(filePath.v, findings)>>

\* six findings: five listed and one more announced
C20_Witness ==
    /\ SecretsScanned
    /\ Len(findings) = 6
    /\ Blocked
    /\ stderr[1][5] = Value("more", <<"\n"," "," ",".",".",".","a","n","d"," ","1"," ","m","o","r","e">>)

\* C21: a detector called again on the same content, in the same process,
\* returns the same ordered findings as the first call and as a call in a
\* fresh process; no scan position is left in the rule table
C21_Deterministic ==
    /\ \A i \in DOMAIN calls :
          calls[i] = (IF hook = "secrets-blocker" THEN detectSecrets(content.v)
                      ELSE detectPII(content.v))
    /\ \A k \in DOMAIN lastIndex : lastIndex[k] = 0

\* a second call has returned findings
C21_Witness ==
    /\ Len(calls) = 2
    /\ Len(calls[2]) > 0
    /\ hook = "secrets-blocker"

\* the same for detectPII
C21_WitnessPii ==
    /\ Len(calls) = 2
    /\ Len(calls[2]) > 0
    /\ hook = "pii-blocker"

\* the rule table read from place n + 1 on, wrapping around
Rotate(rules, n) ==
    [k \in DOMAIN rules |-> rules[((k - 1 + n) % Len(rules)) + 1]]

\* the rule table read backwards
Reverse(rules) == [k \in DOMAIN rules |-> rules[Len(rules) + 1 - k]]

\* the orders of the rule table that are tried: every rotation, and the
\* table read backwards
Orders(rules) ==
    {Rotate(rules, n) : n \in 0..(Len(rules) - 1)} \cup {Reverse(rules)}

\* the findings of a list, as a set
FindingSet(fs) == {fs[i] : i \in DOMAIN fs}

\* C22: the set of findings and the decision do not depend on the order of
\* the rule table: every reordering of SECRET_PATTERNS gives the set of
\* findings the run reported, and the run blocks exactly when that set is
\* not empty, so every rule is evaluated before the decision
C22_OrderInsensitive ==
    SecretsScanned =>
        /\ \A t \in Orders(SECRET_PATTERNS) :
              FindingSet(deduplicateFindings(ScanRules(t, content.v, 1)))
                  = FindingSet(findings)
        /\ Blocked <=> FindingSet(findings) # {}
        /\ Allowed <=> FindingSet(findings) = {}

\* a blocked content with findings of two different rules
C22_Witness ==
    /\ SecretsScanned
    /\ Blocked
    /\ \E i, j \in DOMAIN findings : findings[i].type # findings[j].type

\* the matches of the rule called name in the text
MatchesOf(name, text) ==
    LET k == CHOOSE k \in DOMAIN SECRET_PATTERNS : SECRET_PATTERNS[k].name = name
    IN  MatchAll(SECRET_PATTERNS[k].pattern, text, 1)

\* the try block of the 'JWT Token' validator throws on this token: the
\* payload is not JSON, or the sub or iss claim has no toLowerCase
JwtThrows(match) ==
    LET Parsed(parsed) ==
            \/ parsed = None
            \/ ClaimThrows(JsonGet(parsed[1], <<"s","u","b">>))
            \/ ClaimThrows(JsonGet(parsed[1], <<"i","s","s">>))
    IN  Parsed(JsonParseObject(Base64Decode(
            ReplaceChar(ReplaceChar(SplitOn(match, ".")[2], "-", "+"),
                        "_", "/"))))

\* the content holds a token on which the validator throws
HasThrowingToken ==
    \E i \in DOMAIN MatchesOf(<<"J","W","T"," ","T","o","k","e","n">>, content.v) :
        JwtThrows(ExtractActual(MatchesOf(<<"J","W","T"," ","T","o","k","e","n">>, content.v)[i].text))

\* C23: an exception raised while one rule is evaluated (here inside the
\* validator of 'JWT Token') does not end the process through main().catch
\* and does not stop the scan: the token is reported, and so is every
\* finding of every other rule
C23_RuleFailureIsolated ==
    (SecretsScanned /\ HasThrowingToken) =>
        /\ Blocked
        /\ stderr = <<Report(findings)>>
        /\ HasFinding(<<"J","W","T"," ","T","o","k","e","n">>)
        /\ \A k \in DOMAIN SECRET_PATTERNS :
              FindingSet(RuleFindings(SECRET_PATTERNS[k], content.v,
                             MatchAll(SECRET_PATTERNS[k].pattern, content.v, 1), 1))
                  \subseteq FindingSet(findings)

\* a scan in which the validator threw and rules before and after the
\* token's rule reported
C23_Witness ==
    /\ SecretsScanned
    /\ HasThrowingToken
    /\ HasFinding(<<"A","W","S"," ","A","c","c","e","s","s"," ","K","e","y"," ","I","D">>)
    /\ \E i \in DOMAIN findings :
          /\ findings[i].type \notin {<<"J","W","T"," ","T","o","k","e","n">>, <<"A","W","S"," ","A","c","c","e","s","s"," ","K","e","y"," ","I","D">>}
          /\ i > 2

\* C24: for a token of every form in the rescan set, content that holds the
\* base64 text of the token is reported as 'Base64-Encoded Secret'; base64
\* text of prose, or of bytes that are not printable, is not
C24_Base64Rescan ==
    SecretsScanned =>
        /\ content.v \in {Base64Encode(t) : t \in RescanTokens}
              => HasFinding(<<"B","a","s","e","6","4","-","E","n","c","o","d","e","d"," ","S","e","c","r","e","t">>)
        /\ content.v \in {Base64Encode(Prose), Unprintable}
              => ~HasFinding(<<"B","a","s","e","6","4","-","E","n","c","o","d","e","d"," ","S","e","c","r","e","t">>)

\* the part of C24 that holds: base64 text of 40 characters or more that
\* decodes to a token is reported, prose and unprintable bytes are not
C24_LongTokens ==
    SecretsScanned =>
        /\ (\E t \in RescanTokens :
               content.v = Base64Encode(t) /\ Len(t) >= 30)
              => HasFinding(<<"B","a","s","e","6","4","-","E","n","c","o","d","e","d"," ","S","e","c","r","e","t">>)
        /\ content.v \in {Base64Encode(Prose), Unprintable}
              => ~HasFinding(<<"B","a","s","e","6","4","-","E","n","c","o","d","e","d"," ","S","e","c","r","e","t">>)

\* the encoded AWS access key has been scanned and the run allowed it
C24_ShortTokenAllowed ==
    /\ SecretsScanned
    /\ content.v = Base64Encode(<<"A","K","I","A","I","O","S","F","O","D","N","N","7","E","X","A","M","P","L","E">>)
    /\ Allowed

\* the text ends with the suffix
EndsIn(text, suffix) ==
    /\ Len(text) >= Len(suffix)
    /\ SubSeq(text, Len(text) - Len(suffix) + 1, Len(text)) = suffix

\* the rule of C25 for a path: empty, or its lower-cased final extension
\* is in the skip set, or a base or extra skip pattern matches it
SkipByRule(path) ==
    \/ path = <<>>
    \/ \E k \in DOMAIN SKIP_EXTENSIONS :
          EndsIn(ToLowerCase(path), SKIP_EXTENSIONS[k])
    \/ \E k \in DOMAIN SKIP_PATTERNS_BASE : Test(SKIP_PATTERNS_BASE[k], path)
    \/ \E k \in DOMAIN EXTRA_SKIP_PATTERNS : Test(EXTRA_SKIP_PATTERNS[k], path)

\* C25: shouldSkipFile depends on the path and the patterns alone and is
\* true exactly for an empty path, a path whose lower-cased final extension
\* is in the skip set, and a path a skip pattern matches; a request that is
\* skipped (one with no path among them) is allowed and nothing is scanned,
\* whatever its content, and a request that is not skipped is scanned
C25_SkipFile ==
    (/\ hook = "secrets-blocker"
     /\ pc = "exited"
     /\ event.t = "object"
     /\ filePath.t = "string"
     /\ content.t = "string"
     /\ Trim(content.v) # <<>>) =>
        /\ shouldSkipFile(filePath.v, EXTRA_SKIP_PATTERNS) <=> SkipByRule(filePath.v)
        /\ SkipByRule(filePath.v) => Allowed /\ findings = <<>>
        /\ ~SkipByRule(filePath.v) =>
              /\ findings = detectSecrets(content.v)
              /\ Blocked <=> findings # <<>>

\* a request without a path that carries an access key has been allowed
C25_Witness ==
    /\ hook = "secrets-blocker"
    /\ document = Event(ToolInput(Undef, Str(<<"c","o","n","s","t"," ","k"," ","="," ","'","A","K","I","A","I","O","S","F","O","D","N","N","7","E","X","A","M","P","L","E","'",";">>),
                                  Undef, Undef))
    /\ filePath = Str(<<>>)
    /\ detectSecrets(content.v) # <<>>
    /\ Allowed

\* flags as they are written in a push command: a flag alone, or a flag
\* that takes a value together with its value
FlagGroups ==
    {<<<<"-","u">>>>, <<<<"-","f">>>>, <<<<"-","-","f","o","r","c","e">>>>, <<<<"-","-","d","e","l","e","t","e">>>>,
     <<<<"-","-","f","o","r","c","e","-","w","i","t","h","-","l","e","a","s","e">>>>, <<<<"-","-","r","e","p","o","=","u","p","s","t","r","e","a","m">>>>,
     <<<<"-","-","r","e","p","o">>, <<"u","p","s","t","r","e","a","m">>>>, <<<<"-","-","p","u","s","h","-","o","p","t","i","o","n">>, <<"m","a","i","n">>>>,
     <<<<"-","-","r","e","c","e","i","v","e","-","p","a","c","k">>, <<"m","a","s","t","e","r">>>>, <<<<"-","o">>, <<"m","a","i","n">>>>}

\* the arguments of a command that starts with `git push`
PushArguments(cmd) == SubSeq(Words(cmd), 3, Len(Words(cmd)))

\* the command is one line, `git push` followed by arguments
IsPlainPush(cmd) ==
    /\ \A i \in DOMAIN cmd : cmd[i] # "\n"
    /\ Len(Words(cmd)) >= 2
    /\ Words(cmd)[1] = <<"g","i","t">>
    /\ Words(cmd)[2] = <<"p","u","s","h">>

\* the places of the argument list where a flag can be written without
\* parting a flag from its value
Places(args) == {p \in 0..Len(args) : p = 0 \/ args[p] \notin ValueFlags}

\* the arguments with a flag group written after place p
WithFlag(args, p, group) ==
    SubSeq(args, 1, p) \o group \o SubSeq(args, p + 1, Len(args))

\* C26: the destination the resolver finds does not depend on the flags:
\* a flag, with its value if it takes one, written at any place among the
\* arguments leaves the positional arguments and the resolved target as
\* they were; the value of such a flag is never read as remote or refspec
C26_FlagsIgnored ==
    (pc = "lookup" /\ command.t = "string" /\ IsPlainPush(command.v)) =>
        \A g \in FlagGroups :
            \A p \in Places(PushArguments(command.v)) :
                /\ PushPositionals(Join(WithFlag(PushArguments(command.v), p, g)))
                      = PushPositionals(Join(PushArguments(command.v)))
                /\ extractPushTarget(Join(<<<<"g","i","t">>, <<"p","u","s","h">>>>
                       \o WithFlag(PushArguments(command.v), p, g)))
                      = extractPushTarget(command.v)

\* a push whose flag carries the name of a protected branch as its value
\* has been let through, and a push to main behind a flag has been blocked
C26_Witness ==
    \/ /\ command = Str(<<"g","i","t"," ","p","u","s","h"," ","-","o"," ","m","a","i","n">>)
       /\ pushTarget = None
       /\ pc = "exited"
       /\ currentBranch = Some(<<"f","e","a","t","u","r","e","/","x">>)
       /\ Allowed
    \/ /\ command = Str(<<"g","i","t"," ","p","u","s","h"," ","-","u"," ","o","r","i","g","i","n"," ","m","a","i","n">>)
       /\ pushTarget = Some(<<"m","a","i","n">>)
       /\ Blocked

\* the run is past the lockfile and has not exited
PastLock(r) ==
    runner[r] \in {"trap", "preflight", "loop", "pause", "begin", "session",
                   "changed", "cooldown"}

\* the run is in its main loop
InMainLoop(r) ==
    runner[r] \in {"loop", "pause", "begin", "session", "changed", "cooldown"}

\* no two runs are in the main loop at once
C27_MutualExclusion ==
    \A r, q \in DOMAIN runner : InMainLoop(r) /\ InMainLoop(q) => r = q

\* a run that finds the PID of a live run exits and leaves the PID file as
\* it is; a run that finds the PID of a dead run removes the file and
\* writes its own PID; the PID file is removed when its owner exits
C27_LockHandling ==
    [][\A r \in DOMAIN runner :
          /\ (runner[r] = "lockProbe" /\ runner'[r] # "lockProbe")
                => IF existingPid[r] # "" /\ AlivePid(existingPid[r])
                   THEN runner'[r] = "exited" /\ pidFile' = pidFile
                   ELSE runner'[r] = "lockStale"
          /\ (runner[r] = "lockStale" /\ runner'[r] # "lockStale")
                => pidFile' = None /\ runner'[r] = "lockWrite"
          /\ (runner[r] = "lockWrite" /\ runner'[r] # "lockWrite")
                => pidFile' = Some(r)
          /\ (runner[r] # "exited" /\ runner'[r] = "exited" /\ pidFile = Some(r))
                => pidFile' = None]_vars

\* C27: for every interleaving of two runs on one project at most one is
\* in the main loop at a time; a run that finds a live PID exits without
\* touching the lock, a stale lock is replaced, and the lock is removed
\* when its owner exits
C27_Lockfile == []C27_MutualExclusion /\ C27_LockHandling

\* both runs have a session running at once
C27_BothInSession ==
    /\ DOMAIN runner = {"run1", "run2"}
    /\ runner["run1"] = "session"
    /\ runner["run2"] = "session"

\* the sessions the run has started
SessionsOf(r) == SelectSeq(sessions, LAMBDA e : e.run = r)

\* the failed or timed out sessions at the end of s[1..i]; a session still
\* running does not count
RECURSIVE StreakAt(_, _)
StreakAt(s, i) ==
    IF i = 0 THEN 0
    ELSE IF s[i].result = "running" THEN StreakAt(s, i - 1)
    ELSE IF s[i].result \in {"failed", "timed out"} THEN 1 + StreakAt(s, i - 1)
    ELSE 0

\* the consecutive sessions of the run that have failed or timed out
Streak(r) == StreakAt(SessionsOf(r), Len(SessionsOf(r)))

\* C28: a run starts at most MAX_ITERATIONS sessions; it starts a session
\* only while an unchecked task remains and while fewer than MAX_RETRIES
\* sessions in a row have failed or timed out; FAILURES is that streak, so
\* a session that completes sets it to 0
C28_StopConditions ==
    /\ [](\A r \in DOMAIN runner :
             /\ Len(SessionsOf(r)) <= config.MAX_ITERATIONS
             /\ FAILURES[r] = Streak(r))
    /\ [][\A r \in DOMAIN runner :
             /\ Len(SessionsOf(r))' > Len(SessionsOf(r))
                   => remaining > 0 /\ Streak(r) < config.MAX_RETRIES
             /\ (runner[r] = "session" /\ runner'[r] = "changed")
                   => FAILURES'[r] = 0]_vars

\* a run has ended with a task left because it had started MAX_ITERATIONS
\* sessions, the last of them after a failure and a success
C28_Witness ==
    /\ DOMAIN runner = {"run1"}
    /\ runner["run1"] = "exited"
    /\ remaining > 0
    /\ Len(sessions) = config.MAX_ITERATIONS
    /\ Len(sessions) = 2
    /\ sessions[1].result = "failed"
    /\ sessions[2].result = "completed"
    /\ FAILURES["run1"] = 0

\* a run has ended because MAX_RETRIES sessions in a row failed
C28_WitnessRetries ==
    /\ DOMAIN runner = {"run1"}
    /\ runner["run1"] = "exited"
    /\ remaining > 0
    /\ config.MAX_RETRIES = 2
    /\ Len(sessions) < config.MAX_ITERATIONS \/ config.MAX_ITERATIONS = 2
    /\ FAILURES["run1"] = 2

\* a session is started or an iteration counted in this step
Advances ==
    \/ Len(sessions') > Len(sessions)
    \/ \E r \in DOMAIN runner : ITERATION'[r] # ITERATION[r]

\* after a completed session with more than MAX_CHANGED_FILES changed
\* files the runner creates the pause file; a pass that finds no pause
\* file goes on to the session
PauseCreatedAndLeft ==
    [][\A r \in DOMAIN runner :
          /\ (runner[r] = "changed" /\ runner'[r] # "changed"
                 /\ changed > config.MAX_CHANGED_FILES) => pauseFile'
          /\ (runner[r] = "pause" /\ runner'[r] # "pause" /\ ~pauseFile)
                => runner'[r] = "begin"]_vars

\* if the pause file is in the end removed for good, every run ends
EndsOnceResumed ==
    (<>[](~pauseFile)) => <>(\A r \in DOMAIN runner : runner[r] = "exited")

\* C29 as stated: in no step taken while the pause file exists is a
\* session started or the iteration counter advanced; the runner creates
\* the pause file after a session that leaves too many changed files; once
\* the file is removed the runner resumes, and if the file is removed in
\* the end the run ends
C29_GracefulPause ==
    /\ [][pauseFile => ~Advances]_vars
    /\ PauseCreatedAndLeft
    /\ EndsOnceResumed

\* C29 amended: the pause file is read once per pass of the loop.  A pass
\* whose check finds the file starts no session and counts no iteration,
\* and a session is started only in a pass whose check found no file
C29_PauseAtCheck ==
    /\ [][\A r \in DOMAIN runner :
             /\ (runner[r] = "pause" /\ runner'[r] # "pause" /\ pauseFile)
                   => runner'[r] = "loop" /\ ~Advances
             /\ (runner[r] # "begin" /\ runner'[r] = "begin")
                   => runner[r] = "pause" /\ ~pauseFile
             /\ (ITERATION'[r] # ITERATION[r]
                    \/ Len(SessionsOf(r))' > Len(SessionsOf(r)))
                   => runner[r] = "begin"]_vars
    /\ PauseCreatedAndLeft
    /\ EndsOnceResumed

\* the runner has created the pause file after its first session and waits
\* at the top of the loop
C29_Witness ==
    /\ DOMAIN runner = {"run1"}
    /\ runner["run1"] = "loop"
    /\ pauseFile
    /\ changed > config.MAX_CHANGED_FILES
    /\ Len(sessions) = 1
    /\ sessions[1].result = "completed"
    /\ remaining > 0
    /\ config.MAX_ITERATIONS = 2

\* the last n elements of a sequence
LastOf(s, n) == IF Len(s) <= n THEN s ELSE SubSeq(s, Len(s) - n + 1, Len(s))

\* the events of the completions in cs
EventsOf(cs) == {cs[j].event : j \in DOMAIN cs}

\* history is the entries of the last n completions of cs that pass Test
HoldsLast(n, cs, Counts(_)) ==
    \A of \in {[e \in EventsOf(cs) |->
                  [keep |-> Counts(e), entry |-> HistoryEntry(e, 0)]]} :
       LET Keep(c) == of[c.event].keep
           Made(c) == [of[c.event].entry EXCEPT !.completedAt = c.at]
           Entries(kept) == [i \in DOMAIN kept |-> Made(kept[i])]
       IN  history = Entries(LastOf(SelectSeq(cs, Keep), n))

\* the result of a completion names its agent
HasAgentId(e) == LabelledGroup(<<"a","g","e","n","t","I","d",":">>, WordSet, e.tool_result.v) # None

\* what the hook takes for a completion: 'agentId:' and no
\* 'launched successfully' anywhere in the result
TakenForCompletion(e) ==
    /\ Contains(e.tool_result.v, <<"a","g","e","n","t","I","d",":">>)
    /\ ~Contains(e.tool_result.v, <<"l","a","u","n","c","h","e","d"," ","s","u","c","c","e","s","s","f","u","l","l","y">>)

\* C30: the history holds at most 100 entries, and they are exactly the
\* entries of the most recent completions that name an agent, in the order
\* of completion, the newest last; launches, results without an agent id
\* and inputs that cannot be read add nothing
C30_HistoryCap ==
    /\ Len(history) <= 100
    /\ HoldsLast(100, completions, HasAgentId)

\* the history is capped at 100 and holds the most recent of the results
\* the hook takes for completions, the newest last
C30_CapAsClassified ==
    /\ Len(history) <= 100
    /\ HoldsLast(100, completions, TakenForCompletion)

\* the history was full, three more agents have completed, and the three
\* oldest entries are gone
C30_Witness ==
    /\ Len(completions) = 103
    /\ Len(history) = 100
    /\ history[100].completedAt = 3
    /\ history[1].completedAt = -96

\* an agent completed with 'launched successfully' in its report and left
\* no entry
C30_CompletionLost ==
    /\ completions # <<>>
    /\ completions[Len(completions)].event.tool_result = CompletedServer
    /\ completions[Len(completions)].at = clock
    /\ \A i \in DOMAIN history : history[i].completedAt # clock
====
